---- MODULE Spec2Model ----
(***************************************************************************)
(* Tremor analysis pipeline of MeDUSA: lambda_handler of                   *)
(* lambda_functions/process_sensor_data.py with the three stores it reads  *)
(* and writes (sensor samples, device registry, tremor analysis results),  *)
(* the registry operations of the backend that assign a device to a        *)
(* patient, and the batch script batch_process_all_pi_data.py; the         *)
(* measurement sessions of backend-py/main.py and the NonceService of      *)
(* backend-py/replay_protection.py.                                        *)
(*                                                                         *)
(* Units.  Timestamps are integers in milliseconds (the sensor table's     *)
(* sort key); the handler's seconds-as-float arithmetic is carried out on  *)
(* the millisecond integers, so "5.0 s" is 5000.  Magnitudes and axis      *)
(* values are integers in units of 0.01 g.  Rates, cutoffs and indices are *)
(* exact fractions [n, d] in lowest terms.                                 *)
(***************************************************************************)
EXTENDS Integers, Sequences, FiniteSets, TLC

\* ------------------------------------------------------------------ bounds
MaxSec == 7              \* sample timestamps lie on the seconds 0..MaxSec
MaxRecords == 3          \* raw records in the sensor table
MaxBinds == 2            \* bindings in the history of the device
MaxTicks == 2            \* steps of the clock
MaxLen == 3              \* samples of a raw window given to the fallback by itself
MaxPage == 2             \* items in one page of a query of the sample store
MaxRequests == 3         \* requests to the sessions endpoints
BatchLen == 16           \* length of the axis arrays of a micro-batch record

\* ------------------------------------------------------- program constants
analysis_window_duration == 5000     \* 5.0 s
step_size == 1000                    \* 1.0 s
default_sampling_rate == 100
default_filter_cutoff == 12
low_rate_limit == 25                 \* "if actual_fs < 25"
fallback_rate_limit == 5             \* "if actual_fs < 5"
filter_order == 4
default_lookback == 300              \* "now - 300"
NONCE_TTL_SECONDS == 300             \* os.environ.get("NONCE_TTL_SECONDS", "300")
cleanup_threshold == 1000            \* "if len(self._memory_store) < 1000: return"

Invocations == {1, 2}
DeviceId == "D1"
Patients == {"P1", "P2"}
UNASSIGNED == "UNASSIGNED"
PyNone == "None"                     \* Python's None (falsy)
KeyMissing == "<missing>"            \* the key is not in the dict
NoValue == -1                        \* an integer event key that is not given

\* ------------------------------------------------------------ Python values
\* A raw attribute value: t is its type tag, n the number, l the list.
Val(t, n, l) == [t |-> t, n |-> n, l |-> l]
Absent == Val("absent", 0, <<>>)
Num(n) == Val("num", n, <<>>)
Str == Val("str", 0, <<>>)           \* a string float() cannot parse
List(l) == Val("list", 0, l)

\* float(v) succeeds exactly on numbers; a string raises ValueError, a list
\* TypeError, both caught by the handler's inner try blocks.
Floatable(v) == v.t = "num"
\* Python truthiness of a value read with .get(key, [])
Truthy(v) == \/ v.t = "num" /\ v.n # 0
             \/ v.t = "str"
             \/ v.t = "list" /\ Len(v.l) > 0

\* ---------------------------------------------------------------- fractions
RECURSIVE Gcd(_, _)
Gcd(a, b) == IF b = 0 THEN a ELSE Gcd(b, a % b)
Frac(n, d) == LET g == Gcd(n, d) IN IF g = 0 THEN [n |-> 0, d |-> 1] ELSE [n |-> n \div g, d |-> d \div g]
FracOfInt(k) == [n |-> k, d |-> 1]
FracLt(a, b) == a.n * b.d < b.n * a.d
FracLe(a, b) == a.n * b.d <= b.n * a.d

RECURSIVE ISqrtIn(_, _, _)
ISqrtIn(k, lo, hi) ==
    IF lo >= hi THEN lo
    ELSE LET mid == (lo + hi + 1) \div 2 IN
         IF mid * mid <= k THEN ISqrtIn(k, mid, hi) ELSE ISqrtIn(k, lo, mid - 1)
\* np.sqrt on a sum of squares, in 0.01 g (exact on the perfect squares the inputs use)
ISqrt(k) == ISqrtIn(k, 0, k)

RECURSIVE SumSeq(_)
SumSeq(s) == IF s = <<>> THEN 0 ELSE Head(s) + SumSeq(Tail(s))
RECURSIVE SumSq(_)
SumSq(s) == IF s = <<>> THEN 0 ELSE Head(s) * Head(s) + SumSq(Tail(s))

\* ------------------------------------------------------------- raw records
\* One item of medusa-sensor-data (after decimal_to_float): every attribute
\* the handler probes, Absent when the item does not have it.
Item(ts, mag, ax, ay, az, x, y, z, ox, oy, oz, pid) ==
    [timestamp |-> ts, magnitude |-> mag,
     accel_x |-> ax, accel_y |-> ay, accel_z |-> az,
     x |-> x, y |-> y, z |-> z,
     accelerometer_x |-> ox, accelerometer_y |-> oy, accelerometer_z |-> oz,
     patient_id |-> pid]
\* (c) pre-computed magnitude
MagItem(ts, m, pid) ==
    Item(Num(ts), Num(m), Absent, Absent, Absent, Absent, Absent, Absent, Absent, Absent, Absent, pid)
\* (a) single triplet
TripletItem(ts, ax, ay, az, pid) ==
    Item(Num(ts), Absent, ax, ay, az, Absent, Absent, Absent, Absent, Absent, Absent, pid)
\* (b) micro-batch, simplified schema x, y, z
BatchItem(ts, xs, ys, zs, pid) ==
    Item(Num(ts), Absent, Absent, Absent, Absent, List(xs), List(ys), List(zs), Absent, Absent, Absent, pid)
\* (b) micro-batch, old schema accelerometer_x, ...
OldBatchItem(ts, xs, ys, zs, pid) ==
    Item(Num(ts), Absent, Absent, Absent, Absent, Absent, Absent, Absent, List(xs), List(ys), List(zs), pid)

\* item.get(k, item.get(k_old, []))
GetList(new, old) == IF new.t # "absent" THEN new ELSE IF old.t # "absent" THEN old ELSE List(<<>>)

\* for x, y, z in zip(x_vals, y_vals, z_vals): mag = np.sqrt(x**2 + y**2 + z**2)
RECURSIVE ZipMagnitudes(_, _, _, _)
ZipMagnitudes(ts, xs, ys, zs) ==
    IF xs = <<>> \/ ys = <<>> \/ zs = <<>> THEN <<>>
    ELSE <<[ts |-> ts, mag |-> ISqrt(Head(xs) * Head(xs) + Head(ys) * Head(ys) + Head(zs) * Head(zs))]>>
         \o ZipMagnitudes(ts, Tail(xs), Tail(ys), Tail(zs))

Raised == [ok |-> FALSE, data |-> <<>>]
Samples(s) == [ok |-> TRUE, data |-> s]

\* The handler's third branch: the list-based formats.  zip over a truthy
\* value that is no list raises TypeError outside any try block.
NormalizeLists(ts, item) ==
    LET x_vals == GetList(item.x, item.accelerometer_x)
        y_vals == GetList(item.y, item.accelerometer_y)
        z_vals == GetList(item.z, item.accelerometer_z)
    IN  IF Truthy(x_vals) /\ Truthy(y_vals) /\ Truthy(z_vals)
        THEN IF x_vals.t = "list" /\ y_vals.t = "list" /\ z_vals.t = "list"
             THEN Samples(ZipMagnitudes(ts, x_vals.l, y_vals.l, z_vals.l))
             ELSE Raised
        ELSE Samples(<<>>)

\* The handler's second branch: 'accel_x' in item.  float() failures are
\* caught (ValueError, TypeError) and the record is skipped; item['accel_y']
\* on a missing key is a KeyError, which that except clause does not catch.
NormalizeTriplet(ts, item) ==
    IF ~Floatable(item.accel_x) THEN Samples(<<>>)
    ELSE IF item.accel_y.t = "absent" THEN Raised
    ELSE IF ~Floatable(item.accel_y) THEN Samples(<<>>)
    ELSE IF item.accel_z.t = "absent" THEN Raised
    ELSE IF ~Floatable(item.accel_z) THEN Samples(<<>>)
    ELSE Samples(<<[ts |-> ts, mag |-> ISqrt(item.accel_x.n * item.accel_x.n
                                            + item.accel_y.n * item.accel_y.n
                                            + item.accel_z.n * item.accel_z.n)]>>)

\* The body of "for item in items": the canonical samples of one record, or
\* Raised when an exception leaves the loop.
NormalizeItem(item) ==
    IF ~Floatable(item.timestamp) THEN Raised      \* float(item['timestamp']): KeyError / ValueError
    ELSE LET ts == item.timestamp.n IN
         IF item.magnitude.t # "absent" /\ Floatable(item.magnitude)
         THEN Samples(<<[ts |-> ts, mag |-> item.magnitude.n]>>)
         ELSE IF item.accel_x.t # "absent" THEN NormalizeTriplet(ts, item)
         ELSE NormalizeLists(ts, item)

RECURSIVE NormalizeAll(_)
NormalizeAll(items) ==
    IF items = <<>> THEN Samples(<<>>)
    ELSE LET h == NormalizeItem(Head(items)) IN
         IF ~h.ok THEN Raised
         ELSE LET r == NormalizeAll(Tail(items)) IN
              IF r.ok THEN Samples(h.data \o r.data) ELSE Raised

\* The series left in the order of the records
KeepOrder(s) == s
\* time_series_data.sort(key=lambda x: x[0]): a stable insertion sort
RECURSIVE InsertByTs(_, _)
InsertByTs(e, s) ==
    IF s = <<>> THEN <<e>>
    ELSE IF Head(s).ts <= e.ts THEN <<Head(s)>> \o InsertByTs(e, Tail(s))
    ELSE <<e>> \o s
RECURSIVE SortByTs(_)
SortByTs(s) == IF s = <<>> THEN <<>> ELSE InsertByTs(s[Len(s)], SortByTs(SubSeq(s, 1, Len(s) - 1)))

\* The rate taken as the number of intervals over the duration
ActualFsOfIntervals(tsd, sampling_rate) ==
    IF Len(tsd) > 1 /\ tsd[Len(tsd)].ts - tsd[1].ts > 0
    THEN Frac((Len(tsd) - 1) * 1000, tsd[Len(tsd)].ts - tsd[1].ts)
    ELSE FracOfInt(sampling_rate)
\* Lines 241-247: the rate is taken from the first and the last element of the
\* series as read, before the sort.
ActualFs(tsd, sampling_rate) ==
    IF Len(tsd) > 1 /\ tsd[Len(tsd)].ts - tsd[1].ts > 0
    THEN Frac(Len(tsd) * 1000, tsd[Len(tsd)].ts - tsd[1].ts)
    ELSE FracOfInt(sampling_rate)

\* The cutoff lowered to half the rate instead of the rate over 2.1
FilterCutoffHalfRate(fs) ==
    IF FracLt(fs, FracOfInt(low_rate_limit))
    THEN LET c == Frac(fs.n, fs.d * 2) IN
         IF FracLt(c, FracOfInt(1)) THEN FracOfInt(1) ELSE c
    ELSE FracOfInt(default_filter_cutoff)
\* The cutoff lowered only once it reaches half the rate
FilterCutoffAtNyquist(fs) ==
    IF FracLt(FracOfInt(default_filter_cutoff), Frac(fs.n, 2 * fs.d))
    THEN FracOfInt(default_filter_cutoff)
    ELSE LET c == Frac(fs.n * 10, fs.d * 21) IN
         IF FracLt(c, FracOfInt(1)) THEN FracOfInt(1) ELSE c
\* Lines 264-267
FilterCutoff(fs) ==
    IF FracLt(fs, FracOfInt(low_rate_limit))
    THEN LET c == Frac(fs.n * 10, fs.d * 21) IN
         IF FracLt(c, FracOfInt(1)) THEN FracOfInt(1) ELSE c
    ELSE FracOfInt(default_filter_cutoff)

\* ------------------------------------------------- filter, FFT and features
\* The padding read as three times the order
filtfilt_padlen_of_order == 3 * filter_order
\* scipy's filtfilt pads with 3 * max(len(a), len(b)) = 3 * (order + 1)
\* samples and raises ValueError unless the input is longer than that.
filtfilt_padlen == 3 * (filter_order + 1)

\* butter() raises ValueError unless 0 < cutoff / (0.5 * fs) < 1.
ButterAccepts(cutoff, fs) == cutoff.n > 0 /\ cutoff.n * fs.d * 2 < fs.n * cutoff.d

\* ButterworthLowPass.apply raises exactly when butter or filtfilt does.
FilterRaises(mags, cutoff, fs) == ~ButterAccepts(cutoff, fs) \/ Len(mags) <= filtfilt_padlen

\* filtfilt(b, a, data) by what it does to the samples of data, each sample
\* being followed as its position in the window (at) and the number of
\* passes of the filter it has gone through (passes); the positions before 1
\* and after Len(data) are those of the padding.
\* odd_ext: n samples mirrored about each end are put before and after x
odd_ext(x, n) ==
    [k \in 1..n |-> [at |-> x[1].at - (n + 1 - k), passes |-> 0]]
    \o x \o [k \in 1..n |-> [at |-> x[Len(x)].at + k, passes |-> 0]]
\* lfilter: one output sample for each input sample
lfilter(x) == [k \in 1..Len(x) |-> [x[k] EXCEPT !.passes = @ + 1]]
\* y[::-1]
Reversed(x) == [k \in 1..Len(x) |-> x[Len(x) + 1 - k]]
\* The padding removed at the end of one side only
filtfilt_unpadded_left(x) ==
    LET ext == odd_ext(x, filtfilt_padlen)
        y == Reversed(lfilter(Reversed(lfilter(ext))))
    IN  SubSeq(y, filtfilt_padlen + 1, Len(y))
\* The forward pass, the backward pass, and the padding removed: y[padlen:-padlen]
filtfilt(x) ==
    LET ext == odd_ext(x, filtfilt_padlen)
        y == Reversed(lfilter(Reversed(lfilter(ext))))
    IN  SubSeq(y, filtfilt_padlen + 1, Len(y) - filtfilt_padlen)
\* ButterworthLowPass.apply (lines 25-30) on a window of N samples
Apply(N, cutoff, fs) ==
    IF FilterRaises([k \in 1..N |-> 0], cutoff, fs) THEN Raised
    ELSE Samples(filtfilt([k \in 1..N |-> [at |-> k, passes |-> 0]]))

\* The magnitudes of the non-DC bins of rfft(filtfilt(window)) are not
\* computable here; they are a fixed but unknown function of the window, the
\* rate and the cutoff.  fft_oracle (a variable) records, for every input on
\* which the function has been evaluated, which of these spectra it returned.
SpectrumKinds == {"silent", "tone"}
NoDcBins(kind, L) ==
    [k \in 1..L |-> IF kind = "silent" THEN 0
                    ELSE IF k = (L + 1) \div 2 THEN 3
                    ELSE IF k = 1 THEN 1 ELSE 0]
OracleKey(mags, fs, cutoff) == <<mags, fs, cutoff>>

tremor_band == [low |-> 3, high |-> 6]
\* rfftfreq(N, 1 / fs)[k] = k * fs / N
BinFreq(k, N, fs) == Frac(k * fs.n, N * fs.d)
\* The band without its two ends
InBandOpen(f) == FracLt(FracOfInt(tremor_band.low), f) /\ FracLt(f, FracOfInt(tremor_band.high))
InBand(f) == FracLe(FracOfInt(tremor_band.low), f) /\ FracLe(f, FracOfInt(tremor_band.high))

RECURSIVE BandPower(_, _, _, _)
BandPower(bins, k, N, fs) ==
    IF k > Len(bins) THEN 0
    ELSE (IF InBand(BinFreq(k, N, fs)) THEN bins[k] * bins[k] ELSE 0) + BandPower(bins, k + 1, N, fs)
\* np.argmax: the first index of the maximum (1-based here)
ArgMax(bins) == CHOOSE k \in 1..Len(bins) :
                    /\ \A j \in 1..Len(bins) : bins[j] <= bins[k]
                    /\ \A j \in 1..(k - 1) : bins[j] < bins[k]

\* The threshold of both classification rules: index > 0.3, on the square
IndexThresholdSq == [n |-> 9, d |-> 100]

\* The index taken as a ratio of amplitudes instead of powers
ExtractFeaturesOfAmplitude(bins, N, fs) ==
    LET tremor_power == BandPower(bins, 1, N, fs)
        dominant_freq == IF Len(bins) = 0 THEN FracOfInt(0) ELSE BinFreq(ArgMax(bins), N, fs)
        total_power == SumSq(bins)
        index_sq == IF total_power > 0 THEN Frac(tremor_power, total_power) ELSE FracOfInt(0)
    IN  [dominant_freq |-> dominant_freq,
         tremor_power |-> FracOfInt(tremor_power),
         tremor_index_sq |-> index_sq,
         is_parkinsonian |-> InBand(dominant_freq) /\ FracLt(IndexThresholdSq, index_sq)]
\* TremorProcessor.process after the filter and the FFT (lines 75-97).  The
\* tremor index is recorded by its square, an exact fraction on both paths.
ExtractFeatures(bins, N, fs) ==
    LET tremor_power == BandPower(bins, 1, N, fs)
        dominant_freq == IF Len(bins) = 0 THEN FracOfInt(0) ELSE BinFreq(ArgMax(bins), N, fs)
        total_power == SumSq(bins)
        index_sq == IF total_power > 0
                    THEN Frac(tremor_power * tremor_power, total_power * total_power)
                    ELSE FracOfInt(0)
    IN  [dominant_freq |-> dominant_freq,
         tremor_power |-> FracOfInt(tremor_power),
         tremor_index_sq |-> index_sq,
         is_parkinsonian |-> InBand(dominant_freq) /\ FracLt(IndexThresholdSq, index_sq)]

\* The estimate without its cap
FallbackFeaturesUncapped(mags) ==
    LET n == Len(mags)
        ssd == n * SumSq(mags) - SumSeq(mags) * SumSeq(mags)
        est_sq == Frac(ssd, 400 * n * n)
    IN  [dominant_freq |-> FracOfInt(0),
         tremor_power |-> Frac(ssd, n * n),
         tremor_index_sq |-> est_sq,
         is_parkinsonian |-> FracLt(IndexThresholdSq, est_sq)]
\* The estimate taken from the total RMS, the mean not removed
FallbackFeaturesOfTotal(mags) ==
    LET n == Len(mags)
        ss == n * SumSq(mags)
        est_sq == IF ss >= 400 * n * n THEN FracOfInt(1) ELSE Frac(ss, 400 * n * n)
    IN  [dominant_freq |-> FracOfInt(0),
         tremor_power |-> Frac(ss, n * n),
         tremor_index_sq |-> est_sq,
         is_parkinsonian |-> FracLt(IndexThresholdSq, est_sq)]
\* Lines 320-336: the fallback on the raw window.  With magnitudes m in
\* 0.01 g, rms_ac^2 = (n * sum(m^2) - sum(m)^2) / n^2 and
\* (rms_ac / 0.2)^2 = rms_ac^2 / 400.
FallbackFeatures(mags) ==
    LET n == Len(mags)
        ssd == n * SumSq(mags) - SumSeq(mags) * SumSeq(mags)
        est_sq == IF ssd >= 400 * n * n THEN FracOfInt(1) ELSE Frac(ssd, 400 * n * n)
    IN  [dominant_freq |-> FracOfInt(0),
         tremor_power |-> Frac(ssd, n * n),
         tremor_index_sq |-> est_sq,
         is_parkinsonian |-> FracLt(IndexThresholdSq, est_sq)]

\* Mutant of IsoFormat: the instant is truncated to whole seconds
IsoFormatWholeSeconds(ms) == [sec |-> ms \div 1000, micro |-> 0]
\* datetime.utcfromtimestamp(t).isoformat() + 'Z': whole seconds and the
\* microsecond field of the text "YYYY-MM-DDTHH:MM:SS[.ffffff]Z"
IsoFormat(ms) == [sec |-> ms \div 1000, micro |-> (ms % 1000) * 1000]

\* Mutant of InWindow: the window is closed at its end
InWindowClosed(ts, start, end) == start <= ts /\ ts <= end
\* [mag for ts, mag in time_series_data if current_window_start <= ts < current_window_end]
InWindow(ts, start, end) == start <= ts /\ ts < end
RECURSIVE WindowSamples(_, _, _)
WindowSamples(tsd, start, end) ==
    IF tsd = <<>> THEN <<>>
    ELSE (IF InWindow(Head(tsd).ts, start, end) THEN <<Head(tsd).mag>> ELSE <<>>)
         \o WindowSamples(Tail(tsd), start, end)

\* Mutant of HasSamples: the emptiness test is lost
HasSamplesAlways(mags) == Len(mags) >= 0
\* "if len(window_samples) > 0"
HasSamples(mags) == Len(mags) > 0

\* "if actual_fs < 5: use_fallback = True"
LowRate(fs) == FracLt(fs, FracOfInt(fallback_rate_limit))

\* Mutant of OnProcessError: the exception leaves the loop
OnProcessErrorPropagates == "propagate"
\* Lines 309-318: what becomes of an exception of processor.process: it is
\* caught and the window goes to the fallback.
OnProcessError == "fallback"

\* One pass of the while body (lines 301-356) for the window starting at
\* start: whether a result is emitted, whether processor.process raised, and
\* the result.  oracle is the FFT oracle, defined on every key it is asked.
WindowStep(tsd, start, fs, cutoff, device_id, final_patient_id, oracle) ==
    LET end == start + analysis_window_duration
        mags == WindowSamples(tsd, start, end)
        raises == ~LowRate(fs) /\ FilterRaises(mags, cutoff, fs)
        use_fallback == LowRate(fs) \/ raises
        features == IF use_fallback THEN FallbackFeatures(mags)
                    ELSE ExtractFeatures(NoDcBins(oracle[OracleKey(mags, fs, cutoff)], Len(mags) \div 2),
                                         Len(mags), fs)
    IN  [start |-> start,
         emitted |-> HasSamples(mags),
         error |-> HasSamples(mags) /\ raises,
         aborted |-> HasSamples(mags) /\ raises /\ OnProcessError # "fallback",
         path |-> IF use_fallback THEN "fallback" ELSE "spectral",
         result |-> [device_id |-> device_id,
                     patient_id |-> final_patient_id,
                     timestamp |-> IsoFormat(end),
                     dominant_freq |-> features.dominant_freq,
                     tremor_power |-> features.tremor_power,
                     tremor_index_sq |-> features.tremor_index_sq,
                     is_parkinsonian |-> features.is_parkinsonian]]

\* "while current_window_start + analysis_window_duration <= data_end_time + step_size"
LoopContinues(start, data_end_time) == start + analysis_window_duration <= data_end_time + step_size

\* The while loop (lines 300-359): one outcome per window position visited.
RECURSIVE WindowLoop(_, _, _, _, _, _, _, _)
WindowLoop(tsd, start, data_end_time, fs, cutoff, device_id, final_patient_id, oracle) ==
    IF ~LoopContinues(start, data_end_time) THEN <<>>
    ELSE LET w == WindowStep(tsd, start, fs, cutoff, device_id, final_patient_id, oracle) IN
         IF w.aborted THEN <<w>>
         ELSE <<w>> \o WindowLoop(tsd, start + step_size, data_end_time, fs, cutoff,
                                  device_id, final_patient_id, oracle)

\* The inputs on which the loop evaluates the FFT
RECURSIVE OracleKeys(_, _, _, _, _)
OracleKeys(tsd, start, data_end_time, fs, cutoff) ==
    IF ~LoopContinues(start, data_end_time) THEN {}
    ELSE LET mags == WindowSamples(tsd, start, start + analysis_window_duration) IN
         (IF HasSamples(mags) /\ ~LowRate(fs) /\ ~FilterRaises(mags, cutoff, fs)
          THEN {OracleKey(mags, fs, cutoff)} ELSE {})
         \cup OracleKeys(tsd, start + step_size, data_end_time, fs, cutoff)

\* -------------------------------------------------------------------- state
VARIABLES
    now,              \* the wall clock, in seconds
    devices_table,    \* medusa-devices-prod: the registry item of DeviceId
    assignments,      \* history of the registry's patient bindings, with their times
    sensor_table,     \* medusa-sensor-data: the items of DeviceId, by ascending timestamp
    results_table,    \* medusa-tremor-analysis: the set of stored items
    fft_oracle,       \* the spectra returned so far: a set of [key, kind]
    inv,              \* per invocation of lambda_handler: its position and locals
    batch,            \* the run of batch_process_all_data: its position and locals
    probe,            \* one call of the feature code on a window: its input and output
    sessions,         \* medusa-sessions: the set of stored measurement sessions
    session_requests, \* per request to the sessions endpoints: its position and locals
    memory_store,     \* NonceService._memory_store: the nonces kept in memory
    nonce_table,      \* medusa-nonces-prod: the nonces stored in DynamoDB
    validations,      \* per call of validate_nonce: its position, locals and outcome
    current_session,  \* medusa-devices-prod: the currentSessionId of the item of DeviceId
    dynamodb          \* NonceService._dynamodb is set: the nonces go to the table

backend_vars == <<sessions, session_requests, memory_store, nonce_table, validations, current_session,
                  dynamodb>>
vars == <<now, devices_table, assignments, sensor_table, results_table, fft_oracle, inv, batch, probe,
          backend_vars>>

\* The requests to the sessions endpoints and the calls of validate_nonce
\* that can be in flight together
Requests == 1..MaxRequests
Callers == {1, 2}
IdleRequest == [pc |-> "idle", kind |-> "none", session_id |-> NoValue, device_id |-> "",
                patient_id |-> "", status_code |-> 0, code |-> ""]
\* hmac.new(HMAC_SECRET, "timestamp.random", sha256).hexdigest()[:16]: the keyed
\* digest stands for its input
Hmac(timestamp, random) == <<"hmac", timestamp, random>>
\* The texts a client can send as a nonce: the empty text, a text that does
\* not split in three parts, one whose first part is no integer, and
\* "timestamp.random.signature"
NoNonce == [shape |-> "empty", timestamp |-> 0, random |-> "", signature |-> <<>>]
Nonce(shape, timestamp, random, signature) ==
    [shape |-> shape, timestamp |-> timestamp, random |-> random, signature |-> signature]
\* generate_nonce at the instant timestamp (ms)
GeneratedNonce(timestamp, random) == Nonce("three_parts", timestamp, random, Hmac(timestamp, random))
NoResult == <<FALSE, "none">>
IdleValidation == [pc |-> "idle", nonce |-> NoNonce, result |-> NoResult]
\* The backend before any request
BackendIdle ==
    /\ sessions = {}
    /\ session_requests = [r \in Requests |-> IdleRequest]
    /\ memory_store = {}
    /\ nonce_table = {}
    /\ validations = [c \in Callers |-> IdleValidation]
    /\ current_session = NoValue
    /\ dynamodb = TRUE

\* Python truthiness of a patient id
TruthyId(p) == p # PyNone /\ p # KeyMissing /\ p # ""

NoResponse == [statusCode |-> 0, status |-> "", message |-> "", points_generated |-> 0, samples_processed |-> 0]
Response(code, status, points, samples) ==
    [statusCode |-> code, status |-> status, message |-> "", points_generated |-> points,
     samples_processed |-> samples]
\* Lines 382-389: the body of an error carries str(e), the text of the
\* exception, which names the call that raised
ErrorResponse(why) ==
    [statusCode |-> 500, status |-> "error", message |-> why, points_generated |-> 0,
     samples_processed |-> 0]

NoEvent == [device_id |-> "", patient_id |-> KeyMissing, start_timestamp |-> NoValue,
            end_timestamp |-> NoValue, sampling_rate |-> NoValue]

IdleInvocation ==
    [pc |-> "idle", event |-> NoEvent, patient_id |-> PyNone, lookup |-> "none",
     query |-> [start |-> 0, end |-> 0],
     items |-> <<>>, time_series_data |-> <<>>,
     actual_fs |-> FracOfInt(0), filter_cutoff |-> FracOfInt(0),
     final_patient_id |-> PyNone, windows |-> <<>>, analysis_results |-> <<>>,
     written |-> 0, failure |-> "none", response |-> NoResponse]

\* The key schema of the results table: (patient_id, timestamp)
TREMOR_PK_ATTR(r) == r.patient_id
TREMOR_SK_ATTR(r) == r.timestamp
ResultKey(r) == <<TREMOR_PK_ATTR(r), TREMOR_SK_ATTR(r)>>
\* put_item: an item with the same key is replaced
PutItem(table, r) == {x \in table : ResultKey(x) # ResultKey(r)} \cup {r}

\* sensor_table.query(device_id = :did AND timestamp BETWEEN :start AND :end),
\* ScanIndexForward: the items of the range, oldest first
QueryRange(table, start_ms, end_ms) ==
    SelectSeq(table, LAMBDA it : start_ms <= it.timestamp.n /\ it.timestamp.n <= end_ms)

\* "patient_id if patient_id else items[0].get('patient_id', 'UNASSIGNED')"
FinalPatientId(patient_id, items) ==
    IF TruthyId(patient_id) THEN patient_id
    ELSE IF items[1].patient_id = KeyMissing THEN UNASSIGNED
    ELSE items[1].patient_id

RECURSIVE EmittedResults(_)
EmittedResults(ws) ==
    IF ws = <<>> THEN <<>>
    ELSE (IF Head(ws).emitted /\ ~Head(ws).aborted THEN <<Head(ws).result>> ELSE <<>>)
         \o EmittedResults(Tail(ws))

OracleKind(oracle, key) == (CHOOSE e \in oracle : e.key = key).kind

\* ------------------------------------------------------------ lambda_handler
\* Lines 133-140 and the test of line 144
Invoke(i, ev) ==
    /\ inv[i].pc = "idle"
    /\ inv' = [inv EXCEPT ![i] =
                 IF ev.device_id = ""
                 THEN [@ EXCEPT !.pc = "done", !.event = ev,
                                !.response = Response(400, "Missing device_id", 0, 0)]
                 ELSE [@ EXCEPT !.event = ev,
                                !.patient_id = IF ev.patient_id = KeyMissing THEN PyNone ELSE ev.patient_id,
                                !.lookup = IF ~TruthyId(ev.patient_id) \/ ev.patient_id = UNASSIGNED
                                           THEN "none" ELSE "skipped",
                                !.pc = IF ~TruthyId(ev.patient_id) \/ ev.patient_id = UNASSIGNED
                                       THEN "lookup" ELSE "query"]]
    /\ UNCHANGED <<now, devices_table, assignments, sensor_table, results_table, fft_oracle, batch, probe, backend_vars>>

\* Lines 145-151: devices_table.get_item; raises says whether the call fails,
\* and the exception is swallowed
LookupOwner(i, raises) ==
    /\ inv[i].pc = "lookup"
    /\ inv' = [inv EXCEPT ![i] =
                   IF raises THEN [@ EXCEPT !.pc = "query", !.lookup = "raised"]
                   ELSE IF devices_table.exists
                   THEN [@ EXCEPT !.pc = "query", !.patient_id = devices_table.patientId,
                                  !.lookup = IF TruthyId(devices_table.patientId) THEN "found" ELSE "no_patient"]
                   ELSE [@ EXCEPT !.pc = "query", !.lookup = "no_item"]]
    /\ UNCHANGED <<now, devices_table, assignments, sensor_table, results_table, fft_oracle, batch, probe, backend_vars>>

\* Lines 378-389: the outer except
ErrorReturn(l, why) == [l EXCEPT !.pc = "done", !.failure = why, !.response = ErrorResponse(why)]

\* Line 287 read as if the grid started at the requested range
DataStartTimeOfRange(tsd, q) == q.start
\* Line 287: the window grid starts at the first sample of the series,
\* whatever range q was asked for
DataStartTime(tsd, q) == tsd[1].ts

\* Lines 241-359 once the records are normalized: rate, cutoff, owner and the
\* window loop over the sorted series tsd, with the FFT oracle o
Analyze(l, items, raw, tsd, fs, o) ==
    LET cutoff == FilterCutoff(fs)
        final == FinalPatientId(l.patient_id, items)
        ws == WindowLoop(tsd, DataStartTime(tsd, l.query), tsd[Len(tsd)].ts, fs, cutoff, l.event.device_id, final, o)
    IN  IF Len(raw) = 0
        THEN [l EXCEPT !.pc = "done", !.items = items,
                       !.response = Response(200, "insufficient_data", 0, 0)]
        ELSE IF ws # <<>> /\ ws[Len(ws)].aborted
        THEN ErrorReturn([l EXCEPT !.items = items, !.time_series_data = tsd, !.windows = ws], "window")
        ELSE [l EXCEPT !.pc = "write", !.items = items, !.time_series_data = tsd,
                       !.actual_fs = fs, !.filter_cutoff = cutoff, !.final_patient_id = final,
                       !.windows = ws, !.analysis_results = EmittedResults(ws)]

\* Lines 153-359: the query of the sample store (query_raises says whether it
\* fails) and everything computed from its items
QueryAndAnalyze(i, query_raises) ==
    /\ inv[i].pc = "query"
    /\ LET end_timestamp == IF inv[i].event.end_timestamp = NoValue THEN now
                            ELSE inv[i].event.end_timestamp
           start_timestamp == IF inv[i].event.start_timestamp = NoValue THEN now - default_lookback
                              ELSE inv[i].event.start_timestamp
           sampling_rate == IF inv[i].event.sampling_rate = NoValue THEN default_sampling_rate
                            ELSE inv[i].event.sampling_rate
           q == [start |-> start_timestamp * 1000, end |-> end_timestamp * 1000]
           l == [inv[i] EXCEPT !.query = q]
       IN    IF query_raises
             THEN /\ inv' = [inv EXCEPT ![i] = ErrorReturn(l, "query")]
                  /\ UNCHANGED fft_oracle
             ELSE \E items \in {QueryRange(sensor_table, q.start, q.end)} :
                  \E norm \in {NormalizeAll(items)} :
                    IF ~norm.ok
                    THEN /\ inv' = [inv EXCEPT ![i] = ErrorReturn([l EXCEPT !.items = items], "normalize")]
                         /\ UNCHANGED fft_oracle
                    ELSE \E tsd \in {SortByTs(norm.data)} :
                         \E fs \in {ActualFs(norm.data, sampling_rate)} :
                         \E keys \in {IF Len(tsd) > 0
                                      THEN OracleKeys(tsd, DataStartTime(tsd, q), tsd[Len(tsd)].ts, fs, FilterCutoff(fs))
                                      ELSE {}} :
                         \E ext \in [keys \ {e.key : e \in fft_oracle} -> SpectrumKinds] :
                         \E oracle \in {fft_oracle \cup {[key |-> k, kind |-> ext[k]] : k \in DOMAIN ext}} :
                           /\ fft_oracle' = oracle
                           /\ inv' = [inv EXCEPT ![i] =
                                        Analyze(l, items, norm.data, tsd, fs,
                                                [k \in keys |-> OracleKind(oracle, k)])]
    /\ UNCHANGED <<now, devices_table, assignments, sensor_table, results_table, batch, probe, backend_vars>>

\* Lines 362-365: one item of the batch reaches the table
WriteItem(i) ==
    /\ inv[i].pc = "write"
    /\ inv[i].written < Len(inv[i].analysis_results)
    /\ results_table' = PutItem(results_table, inv[i].analysis_results[inv[i].written + 1])
    /\ inv' = [inv EXCEPT ![i].written = @ + 1]
    /\ UNCHANGED <<now, devices_table, assignments, sensor_table, fft_oracle, batch, probe, backend_vars>>

\* Lines 362-365 and 378-389: the batch writer raises with items still unwritten
WriteRaises(i) ==
    /\ inv[i].pc = "write"
    /\ inv[i].written < Len(inv[i].analysis_results)
    /\ inv' = [inv EXCEPT ![i] = ErrorReturn(@, "write")]
    /\ UNCHANGED <<now, devices_table, assignments, sensor_table, results_table, fft_oracle, batch, probe, backend_vars>>

\* Lines 367-376
Return(i) ==
    /\ inv[i].pc = "write"
    /\ inv[i].written = Len(inv[i].analysis_results)
    /\ inv' = [inv EXCEPT ![i] = [@ EXCEPT !.pc = "done",
                 !.response = Response(200, "success", Len(inv[i].analysis_results),
                                       Len(inv[i].time_series_data))]]
    /\ UNCHANGED <<now, devices_table, assignments, sensor_table, results_table, fft_oracle, batch, probe, backend_vars>>

\* ------------------------------------------------- the feature code by itself
NoFeatures ==
    [dominant_freq |-> FracOfInt(0), tremor_power |-> FracOfInt(0),
     tremor_index_sq |-> FracOfInt(0), is_parkinsonian |-> FALSE]
IdleProbe == [pc |-> "idle", bins |-> <<>>, mags |-> <<>>, N |-> 0, fs |-> FracOfInt(0),
              features |-> NoFeatures, items |-> <<>>, series |-> <<>>,
              cutoff |-> FracOfInt(0), filtered |-> <<>>,
              pending |-> <<>>, last_evaluated_key |-> FALSE,
              current_window_start |-> 0, data_end_time |-> 0]

\* TremorProcessor.process, lines 75-97, on a window of N samples at rate fs
\* whose filtered spectrum has the non-DC magnitudes bins
ProcessWindow(bins, N, fs) ==
    /\ probe.pc = "idle"
    /\ probe' = [pc |-> "spectral", bins |-> bins, mags |-> <<>>, N |-> N, fs |-> fs,
                 features |-> ExtractFeatures(bins, N, fs), items |-> <<>>, series |-> <<>>,
                 cutoff |-> FracOfInt(0), filtered |-> <<>>,
                 pending |-> <<>>, last_evaluated_key |-> FALSE,
                 current_window_start |-> 0, data_end_time |-> 0]
    /\ UNCHANGED <<now, devices_table, assignments, sensor_table, results_table, fft_oracle, inv, batch, backend_vars>>

\* Lines 320-336 on the raw window mags
FallbackWindow(mags) ==
    /\ probe.pc = "idle"
    /\ probe' = [pc |-> "fallback", bins |-> <<>>, mags |-> mags, N |-> Len(mags), fs |-> FracOfInt(0),
                 features |-> FallbackFeatures(mags), items |-> <<>>, series |-> <<>>,
                 cutoff |-> FracOfInt(0), filtered |-> <<>>,
                 pending |-> <<>>, last_evaluated_key |-> FALSE,
                 current_window_start |-> 0, data_end_time |-> 0]
    /\ UNCHANGED <<now, devices_table, assignments, sensor_table, results_table, fft_oracle, inv, batch, backend_vars>>

\* Lines 196-260 on the raw records items, in the order given: the loop over
\* the records, then the sort of the series
NormalizeRecords(items) ==
    /\ probe.pc = "idle"
    /\ \E norm \in {NormalizeAll(items)} :
         probe' = IF norm.ok
                  THEN [IdleProbe EXCEPT !.pc = "normalized", !.items = items,
                                         !.series = SortByTs(norm.data)]
                  ELSE [IdleProbe EXCEPT !.pc = "raised", !.items = items]
    /\ UNCHANGED <<now, devices_table, assignments, sensor_table, results_table, fft_oracle, inv, batch, backend_vars>>

\* Lines 262-267 at the rate fs
ChooseCutoff(fs) ==
    /\ probe.pc = "idle"
    /\ probe' = [IdleProbe EXCEPT !.pc = "tuned", !.fs = fs, !.cutoff = FilterCutoff(fs)]
    /\ UNCHANGED <<now, devices_table, assignments, sensor_table, results_table, fft_oracle, inv, batch, backend_vars>>

\* ButterworthLowPass(cutoff, fs).apply on a window of N samples
ApplyFilter(N, cutoff, fs) ==
    /\ probe.pc = "idle"
    /\ \E out \in {Apply(N, cutoff, fs)} :
         probe' = [IdleProbe EXCEPT !.pc = IF out.ok THEN "filtered" ELSE "filter_raised",
                                    !.N = N, !.fs = fs, !.cutoff = cutoff, !.filtered = out.data]
    /\ UNCHANGED <<now, devices_table, assignments, sensor_table, results_table, fft_oracle, inv, batch,
                   backend_vars>>

\* ------------------------------------------- the handler's loops step by step
\* One page of sensor_table.query: at most MaxPage items, and whether the
\* response carries 'LastEvaluatedKey' (the query stopped at the page limit)
Page(found) ==
    LET n == IF Len(found) < MaxPage THEN Len(found) ELSE MaxPage
    IN  [Items |-> SubSeq(found, 1, n), rest |-> SubSeq(found, n + 1, Len(found)),
         LastEvaluatedKey |-> n = MaxPage]

\* Lines 154-183 with the default range: the first page of the query
QueryFirstPage ==
    /\ probe.pc = "idle"
    /\ \E response \in {Page(QueryRange(sensor_table, (now - default_lookback) * 1000, now * 1000))} :
         probe' = [IdleProbe EXCEPT !.pc = "paging", !.items = response.Items,
                                    !.pending = response.rest,
                                    !.last_evaluated_key = response.LastEvaluatedKey]
    /\ UNCHANGED <<now, devices_table, assignments, sensor_table, results_table, fft_oracle, inv, batch,
                   backend_vars>>

\* Lines 186-189: one pass of "while 'LastEvaluatedKey' in response"
QueryNextPage ==
    /\ probe.pc = "paging"
    /\ probe.last_evaluated_key
    /\ \E response \in {Page(probe.pending)} :
         probe' = [probe EXCEPT !.items = @ \o response.Items,
                                !.pending = response.rest,
                                !.last_evaluated_key = response.LastEvaluatedKey]
    /\ UNCHANGED <<now, devices_table, assignments, sensor_table, results_table, fft_oracle, inv, batch,
                   backend_vars>>

\* Lines 191-291 once the last page is in: normalization, the early returns
\* of lines 249-257 and 378-389, the sort and the start of the window grid
StartWindows ==
    /\ probe.pc = "paging"
    /\ ~probe.last_evaluated_key
    /\ \E norm \in {NormalizeAll(probe.items)} :
       \E tsd \in {SortByTs(norm.data)} :
         probe' = IF ~norm.ok \/ Len(norm.data) = 0
                  THEN [probe EXCEPT !.pc = "returned"]
                  ELSE [probe EXCEPT !.pc = "windowing", !.series = tsd,
                                     !.current_window_start = tsd[1].ts,
                                     !.data_end_time = tsd[Len(tsd)].ts]
    /\ UNCHANGED <<now, devices_table, assignments, sensor_table, results_table, fft_oracle, inv, batch,
                   backend_vars>>

\* Mutant of NextWindowStart: the start is not advanced
SameWindowStart(current_window_start) == current_window_start
\* Line 359: "current_window_start += step_size"
NextWindowStart(current_window_start) == current_window_start + step_size

\* Lines 300-359: one pass of the while loop
WindowIteration ==
    /\ probe.pc = "windowing"
    /\ LoopContinues(probe.current_window_start, probe.data_end_time)
    /\ probe' = [probe EXCEPT !.current_window_start = NextWindowStart(@)]
    /\ UNCHANGED <<now, devices_table, assignments, sensor_table, results_table, fft_oracle, inv, batch,
                   backend_vars>>

\* Lines 300 and 361-376: the loop condition fails and the handler returns
WindowsDone ==
    /\ probe.pc = "windowing"
    /\ ~LoopContinues(probe.current_window_start, probe.data_end_time)
    /\ probe' = [probe EXCEPT !.pc = "returned"]
    /\ UNCHANGED <<now, devices_table, assignments, sensor_table, results_table, fft_oracle, inv, batch,
                   backend_vars>>

\* ---------------------------------------------------- batch_process_all_data
batch_fs == 100
batch_cutoff == 12
IdleBatch ==
    [pc |-> "idle", patient_id |-> PyNone, samples |-> <<>>, window_size |-> 0, overlap |-> 0,
     i |-> 0, processed_count |-> 0, write_errors |-> 0, returned |-> NoValue]

BatchReturns(b, count) == [b EXCEPT !.pc = "returned", !.returned = count]
\* An exception that no handler of the script catches
BatchCrashes(b) == [b EXCEPT !.pc = "crashed"]

\* Lines 135-145: only the accelerometer_x/y/z arrays are read
RECURSIVE BatchSamples(_)
BatchSamples(items) ==
    IF items = <<>> THEN <<>>
    ELSE LET it == Head(items)
             xs == IF it.accelerometer_x.t = "list" THEN it.accelerometer_x.l ELSE <<>>
             ys == IF it.accelerometer_y.t = "list" THEN it.accelerometer_y.l ELSE <<>>
             zs == IF it.accelerometer_z.t = "list" THEN it.accelerometer_z.l ELSE <<>>
         IN  ZipMagnitudes(it.timestamp.n, xs, ys, zs) \o BatchSamples(Tail(items))

\* Line 167: the stored timestamp is read as seconds
BatchIsoFormat(timestamp_unix) == [sec |-> timestamp_unix, micro |-> 0]

\* Lines 90-102: the registry lookup, outside any try block
BatchStart(window_size, overlap, raises) ==
    /\ batch.pc = "idle"
    /\ batch' = IF raises THEN BatchCrashes(batch)
                ELSE IF ~devices_table.exists THEN BatchReturns(batch, 0)
                ELSE [batch EXCEPT !.pc = "query", !.patient_id = devices_table.patientId,
                                   !.window_size = window_size, !.overlap = overlap]
    /\ UNCHANGED <<now, devices_table, assignments, sensor_table, results_table, fft_oracle, inv, probe, backend_vars>>

\* Lines 104-157: the query of all the records of the device and the samples
BatchQuery(raises) ==
    /\ batch.pc = "query"
    /\ batch' = IF raises THEN BatchCrashes(batch)
                ELSE IF Len(sensor_table) = 0 THEN BatchReturns(batch, 0)
                ELSE LET samples == BatchSamples(sensor_table) IN
                     IF Len(samples) < batch.window_size THEN BatchReturns(batch, 0)
                     ELSE [batch EXCEPT !.pc = "windows", !.samples = samples]
    /\ UNCHANGED <<now, devices_table, assignments, sensor_table, results_table, fft_oracle, inv, probe, backend_vars>>

\* Lines 159-198: one pass of the for loop; put_raises says whether put_item
\* fails, which the loop prints and survives
BatchWindow(put_raises) ==
    /\ batch.pc = "windows"
    /\ batch.i + batch.window_size <= Len(batch.samples)
    /\ \E window_samples \in {SubSeq(batch.samples, batch.i + 1, batch.i + batch.window_size)} :
       \E magnitudes \in {[k \in 1..Len(window_samples) |-> window_samples[k].mag]} :
       \E key \in {OracleKey(magnitudes, FracOfInt(batch_fs), FracOfInt(batch_cutoff))} :
         IF FilterRaises(magnitudes, FracOfInt(batch_cutoff), FracOfInt(batch_fs))
         THEN /\ batch' = BatchCrashes(batch)
              /\ UNCHANGED <<results_table, fft_oracle>>
         ELSE \E kind \in {k \in SpectrumKinds : \A e \in fft_oracle : e.key = key => e.kind = k} :
              LET features == ExtractFeatures(NoDcBins(kind, Len(magnitudes) \div 2),
                                              Len(magnitudes), FracOfInt(batch_fs))
                  analysis_result ==
                      [device_id |-> DeviceId,
                       patient_id |-> batch.patient_id,
                       timestamp |-> BatchIsoFormat(window_samples[Len(window_samples) \div 2 + 1].ts),
                       dominant_freq |-> features.dominant_freq,
                       tremor_power |-> features.tremor_power,
                       tremor_index_sq |-> features.tremor_index_sq,
                       is_parkinsonian |-> features.is_parkinsonian]
              IN  /\ fft_oracle' = fft_oracle \cup {[key |-> key, kind |-> kind]}
                  /\ results_table' = IF put_raises THEN results_table
                                      ELSE PutItem(results_table, analysis_result)
                  /\ batch' = [batch EXCEPT !.i = @ + batch.window_size - batch.overlap,
                                            !.processed_count = IF put_raises THEN @ ELSE @ + 1,
                                            !.write_errors = IF put_raises THEN @ + 1 ELSE @]
    /\ UNCHANGED <<now, devices_table, assignments, sensor_table, inv, probe, backend_vars>>

\* Lines 200-210: "COMPLETE!" and the count
BatchReturn ==
    /\ batch.pc = "windows"
    /\ batch.i + batch.window_size > Len(batch.samples)
    /\ batch' = BatchReturns(batch, batch.processed_count)
    /\ UNCHANGED <<now, devices_table, assignments, sensor_table, results_table, fft_oracle, inv, probe, backend_vars>>

\* ------------------------------------------------------- the device registry
NoRelease == NoValue
\* The open binding of the history is closed at time t
Release(hist, t) ==
    [k \in 1..Len(hist) |-> IF hist[k].released_at = NoRelease
                             THEN [hist[k] EXCEPT !.released_at = t] ELSE hist[k]]

\* register_device: a registry record with "patientId": None
RegisterDevice ==
    /\ ~devices_table.exists
    /\ devices_table' = [exists |-> TRUE, patientId |-> PyNone]
    /\ UNCHANGED <<now, assignments, sensor_table, results_table, fft_oracle, inv, batch, probe, backend_vars>>

\* bind_device: update_device(deviceId, {"patientId": user_id}) on a known device
BindDevice(p) ==
    /\ devices_table.exists
    /\ Len(assignments) < MaxBinds
    /\ devices_table' = [devices_table EXCEPT !.patientId = p]
    /\ assignments' = Append(Release(assignments, now),
                             [patient |-> p, assigned_at |-> now, released_at |-> NoRelease])
    /\ UNCHANGED <<now, sensor_table, results_table, fft_oracle, inv, batch, probe, backend_vars>>

\* delete_device_endpoint: the registry record is removed
DeleteDevice ==
    /\ devices_table.exists
    /\ devices_table' = [exists |-> FALSE, patientId |-> PyNone]
    /\ assignments' = Release(assignments, now)
    /\ UNCHANGED <<now, sensor_table, results_table, fft_oracle, inv, batch, probe, backend_vars>>

\* The clock of the deployment, read at the instants of a grid whose step is
\* the shortest span of readings for which the window loop runs
ClockStep == (analysis_window_duration - step_size) \div 1000
Tick ==
    /\ now + ClockStep <= MaxTicks * ClockStep
    /\ now' = now + ClockStep
    /\ UNCHANGED <<devices_table, assignments, sensor_table, results_table, fft_oracle, inv, batch, probe, backend_vars>>

\* sensor_table.put_item: the record with the same timestamp is replaced
PutSample(table, it) ==
    SelectSeq(table, LAMBDA x : x.timestamp.n < it.timestamp.n) \o <<it>>
    \o SelectSeq(table, LAMBDA x : x.timestamp.n > it.timestamp.n)

\* enrich_sensor_data_fixed.lambda_handler, single-value mode: the reading of
\* this instant is stored with device_item.get('patientId', 'UNASSIGNED'), or
\* with "UNASSIGNED" when the registry has no record of the device
EnrichedPatientId == IF devices_table.exists THEN devices_table.patientId ELSE UNASSIGNED
Ingest(mag) ==
    /\ \/ Len(sensor_table) < MaxRecords
       \/ \E k \in 1..Len(sensor_table) : sensor_table[k].timestamp.n = now * 1000
    /\ sensor_table' = PutSample(sensor_table, MagItem(now * 1000, mag, EnrichedPatientId))
    /\ UNCHANGED <<now, devices_table, assignments, results_table, fft_oracle, inv, batch, probe, backend_vars>>

\* ------------------------------------------------------ measurement sessions
\* db.get_active_session_by_device: the stored sessions of the device whose
\* status is "active"
get_active_session_by_device(device_id) ==
    {ses \in sessions : ses.deviceId = device_id /\ ses.status = "active"}
\* db.get_session
get_session(session_id) == {ses \in sessions : ses.sessionId = session_id}
\* raise HTTPException(status_code, detail = {"code": code})
Rejected(req, status_code, code) == [req EXCEPT !.pc = "done", !.status_code = status_code, !.code = code]

\* create_measurement_session up to the session_data it builds: the reads of
\* the device, of its active session, of the patient and of the profile.
\* patient_found and allowed are the outcomes of the two last reads; the
\* session id is the number of the request.
CreateSessionCheck(r, patient, patient_found, allowed) ==
    /\ session_requests[r].pc = "idle"
    /\ session_requests' = [session_requests EXCEPT ![r] =
         LET req == [@ EXCEPT !.kind = "create", !.device_id = DeviceId, !.patient_id = patient] IN
         IF ~devices_table.exists THEN Rejected(req, 404, "DEVICE_NOT_FOUND")
         ELSE IF get_active_session_by_device(DeviceId) # {} THEN Rejected(req, 409, "DEVICE_IN_USE")
         ELSE IF ~patient_found THEN Rejected(req, 404, "PATIENT_NOT_FOUND")
         ELSE IF ~allowed THEN Rejected(req, 403, "FORBIDDEN")
         ELSE [req EXCEPT !.pc = "create_session", !.session_id = r]]
    /\ UNCHANGED <<now, devices_table, assignments, sensor_table, results_table, fft_oracle, inv, batch, probe,
                   sessions, memory_store, nonce_table, validations, current_session, dynamodb>>

\* db.create_session(session_data): an unconditional put_item
CreateSessionPut(r) ==
    /\ session_requests[r].pc = "create_session"
    /\ sessions' = {ses \in sessions : ses.sessionId # session_requests[r].session_id}
                   \cup {[sessionId |-> session_requests[r].session_id,
                           deviceId |-> session_requests[r].device_id,
                           patientId |-> session_requests[r].patient_id,
                           status |-> "active", startTime |-> now, endTime |-> NoValue]}
    /\ session_requests' = [session_requests EXCEPT ![r].pc = "update_device"]
    /\ UNCHANGED <<now, devices_table, assignments, sensor_table, results_table, fft_oracle, inv, batch, probe,
                   memory_store, nonce_table, validations, current_session, dynamodb>>

\* db.update_device(deviceId, {"currentSessionId": session_id}) and the
\* response
CreateSessionReturn(r) ==
    /\ session_requests[r].pc = "update_device"
    /\ session_requests[r].kind = "create"
    /\ current_session' = session_requests[r].session_id
    /\ session_requests' = [session_requests EXCEPT ![r].pc = "done", ![r].status_code = 200]
    /\ UNCHANGED <<now, devices_table, assignments, sensor_table, results_table, fft_oracle, inv, batch, probe,
                   sessions, memory_store, nonce_table, validations, dynamodb>>

\* end_measurement_session up to the updates it builds: the read of the
\* session and the checks on it
EndSessionCheck(r, session_id, allowed) ==
    /\ session_requests[r].pc = "idle"
    /\ session_requests' = [session_requests EXCEPT ![r] =
         LET req == [@ EXCEPT !.kind = "end", !.session_id = session_id]
             found == get_session(session_id)
         IN  IF found = {} THEN Rejected(req, 404, "SESSION_NOT_FOUND")
             ELSE IF (CHOOSE ses \in found : TRUE).status # "active"
             THEN Rejected(req, 400, "SESSION_NOT_ACTIVE")
             ELSE IF ~allowed THEN Rejected(req, 403, "FORBIDDEN")
             ELSE [req EXCEPT !.pc = "update_session",
                              !.device_id = (CHOOSE ses \in found : TRUE).deviceId]]
    /\ UNCHANGED <<now, devices_table, assignments, sensor_table, results_table, fft_oracle, inv, batch, probe,
                   sessions, memory_store, nonce_table, validations, current_session, dynamodb>>

\* db.update_session(session_id, {"status": "completed", "endTime": now})
EndSessionUpdate(r) ==
    /\ session_requests[r].pc = "update_session"
    /\ sessions' = {IF ses.sessionId = session_requests[r].session_id
                    THEN [ses EXCEPT !.status = "completed", !.endTime = now] ELSE ses
                    : ses \in sessions}
    /\ session_requests' = [session_requests EXCEPT ![r].pc = "update_device"]
    /\ UNCHANGED <<now, devices_table, assignments, sensor_table, results_table, fft_oracle, inv, batch, probe,
                   memory_store, nonce_table, validations, current_session, dynamodb>>

\* db.update_device(deviceId, {"currentSessionId": None}) and the response
EndSessionReturn(r) ==
    /\ session_requests[r].pc = "update_device"
    /\ session_requests[r].kind = "end"
    /\ current_session' = NoValue
    /\ session_requests' = [session_requests EXCEPT ![r].pc = "done", ![r].status_code = 200]
    /\ UNCHANGED <<now, devices_table, assignments, sensor_table, results_table, fft_oracle, inv, batch, probe,
                   sessions, memory_store, nonce_table, validations, dynamodb>>

\* ------------------------------------------------------------- NonceService
AlreadyUsed == "Nonce already used (potential replay attack)"
\* _is_nonce_used: get_item on the table, or, when the service has no table
\* or get_item raises ClientError, the look-up in the memory store
is_nonce_used(nonce, read_raises) ==
    IF dynamodb /\ ~read_raises THEN nonce \in nonce_table ELSE nonce \in memory_store
\* _cleanup_memory_store at the instant current_time (ms)
cleanup_memory_store(store, current_time) ==
    IF Cardinality(store) < cleanup_threshold THEN store
    ELSE {n \in store : ~(n.timestamp < current_time - NONCE_TTL_SECONDS * 1000)}

\* validate_nonce up to the call of _mark_nonce_used (lines 101-139): the
\* checks of the format, the signature and the age, and the used-check.
\* read_raises says whether get_item raises ClientError.
ValidateCheck(c, nonce, read_raises) ==
    /\ validations[c].pc = "idle"
    /\ validations' = [validations EXCEPT ![c] =
         LET current_time == now * 1000
             reject(why) == [pc |-> "done", nonce |-> nonce, result |-> <<FALSE, why>>]
         IN  IF nonce.shape = "empty" THEN reject("Nonce is required")
             ELSE IF nonce.shape # "three_parts" THEN reject("Invalid nonce format")
             ELSE IF nonce.signature # Hmac(nonce.timestamp, nonce.random)
             THEN reject("Invalid nonce signature")
             ELSE IF current_time - nonce.timestamp < 0
             THEN reject("Nonce timestamp is in the future")
             ELSE IF current_time - nonce.timestamp > NONCE_TTL_SECONDS * 1000
             THEN reject("Nonce expired")
             ELSE IF is_nonce_used(nonce, read_raises) THEN reject(AlreadyUsed)
             ELSE [pc |-> "mark", nonce |-> nonce, result |-> NoResult]]
    /\ UNCHANGED <<now, devices_table, assignments, sensor_table, results_table, fft_oracle, inv, batch, probe,
                   sessions, session_requests, memory_store, nonce_table, current_session, dynamodb>>

\* _mark_nonce_used and the return of (True, ""), lines 141-181: an
\* unconditional put_item, or, when the service has no table or put_item
\* raises ClientError, the entry in the memory store; then the clean-up.
ValidateMark(c, write_raises) ==
    /\ validations[c].pc = "mark"
    /\ IF dynamodb /\ ~write_raises
       THEN /\ nonce_table' = nonce_table \cup {validations[c].nonce}
            /\ memory_store' = cleanup_memory_store(memory_store, now * 1000)
       ELSE /\ memory_store' = cleanup_memory_store(memory_store \cup {validations[c].nonce}, now * 1000)
            /\ UNCHANGED nonce_table
    /\ validations' = [validations EXCEPT ![c].pc = "done", ![c].result = <<TRUE, "">>]
    /\ UNCHANGED <<now, devices_table, assignments, sensor_table, results_table, fft_oracle, inv, batch, probe,
                   sessions, session_requests, current_session, dynamodb>>

\* The clock, read at instants half a validity window and a second apart
NonceClockStep == NONCE_TTL_SECONDS \div 2 + 1
Elapse ==
    /\ now + NonceClockStep <= MaxTicks * NonceClockStep
    /\ now' = now + NonceClockStep
    /\ UNCHANGED <<devices_table, assignments, sensor_table, results_table, fft_oracle, inv, batch, probe,
                   backend_vars>>

\* ------------------------------------------------------------------- inputs
\* The timestamps (ms) a raw record can carry
\* whole seconds, and one timestamp off the grid of whole seconds
OffGrid == step_size + step_size \div 2
Timestamps == {sec * 1000 : sec \in 0..MaxSec} \cup {OffGrid}

RECURSIVE Repeat(_, _)
Repeat(v, n) == IF n = 0 THEN <<>> ELSE <<v>> \o Repeat(v, n - 1)

RECURSIVE AscendingSeq(_)
AscendingSeq(S) ==
    IF S = {} THEN <<>>
    ELSE LET m == CHOOSE x \in S : \A y \in S : x <= y IN <<m>> \o AscendingSeq(S \ {m})

\* The length of a micro-batch that the filter cannot take on its own
ShortLen == BatchLen - 3
\* The raw records of the bounded inputs, by name
ShapeItem(shape, ts, pid) ==
    CASE shape = "m100" -> MagItem(ts, 100, pid)
      [] shape = "m160" -> MagItem(ts, 160, pid)
      [] shape = "triplet" -> TripletItem(ts, Num(60), Num(80), Num(0), pid)
      [] shape = "batch" -> BatchItem(ts, Repeat(0, BatchLen), Repeat(0, BatchLen), Repeat(100, BatchLen), pid)
      [] shape = "short" -> BatchItem(ts, Repeat(0, ShortLen), Repeat(0, ShortLen), Repeat(100, ShortLen), pid)
      [] shape = "oldbatch" -> OldBatchItem(ts, Repeat(60, BatchLen), Repeat(80, BatchLen), Repeat(0, BatchLen), pid)
      [] shape = "bad_x" -> TripletItem(ts, Str, Num(80), Num(0), pid)
      [] shape = "bad_mag" -> Item(Num(ts), Str, Absent, Absent, Absent, Absent, Absent, Absent, Absent, Absent, Absent, pid)
      [] shape = "no_y" -> TripletItem(ts, Num(60), Absent, Num(0), pid)
      [] shape = "ragged" -> BatchItem(ts, Repeat(0, BatchLen), Repeat(0, ShortLen), Repeat(100, BatchLen), pid)

\* The tables with at most MaxRecords records, one per chosen timestamp
StoresOver(stamps, shapes, pids) ==
    UNION {{ [k \in 1..Cardinality(T) |-> ShapeItem(f[AscendingSeq(T)[k]].shape,
                                                    AscendingSeq(T)[k],
                                                    f[AscendingSeq(T)[k]].pid)]
             : f \in [T -> [shape : shapes, pid : pids]] }
           : T \in {T \in SUBSET stamps : Cardinality(T) <= MaxRecords}}
Stores(shapes, pids) == StoresOver(Timestamps, shapes, pids)

Event(device_id, patient_id, start, end, rate) ==
    [device_id |-> device_id, patient_id |-> patient_id, start_timestamp |-> start,
     end_timestamp |-> end, sampling_rate |-> rate]

\* ------------------------------------------------- windowing specification
\* One invocation over every bounded table, with the store failures.
PipeShapes == {"m100", "batch"}
PipeEvents == {Event(d, KeyMissing, NoValue, NoValue, NoValue) : d \in {DeviceId, ""}}

InitPipe ==
    /\ now = MaxSec
    /\ devices_table = [exists |-> FALSE, patientId |-> PyNone]
    /\ assignments = <<>>
    /\ sensor_table \in Stores(PipeShapes, {KeyMissing})
    /\ results_table = {}
    /\ fft_oracle = {}
    /\ inv = [i \in Invocations |-> IdleInvocation]
    /\ batch = IdleBatch
    /\ probe = IdleProbe
    /\ BackendIdle

NextPipe ==
    \/ \E ev \in PipeEvents : Invoke(1, ev)
    \/ \E raises \in BOOLEAN : LookupOwner(1, raises)
    \/ \E query_raises \in BOOLEAN : QueryAndAnalyze(1, query_raises)
    \/ WriteItem(1)
    \/ WriteRaises(1)
    \/ Return(1)

SpecPipe == InitPipe /\ [][NextPipe]_vars

\* --------------------------------------------------- re-run specification
\* Two invocations, one after the other or interleaved, over an unchanged
\* table of a device bound to a patient, while the device can be bound again.
RerunShapes == {"m100", "m160"}
RerunTimestamps == {0, OffGrid} \cup {sec * 1000 : sec \in (MaxSec - 2)..MaxSec}
RerunEvents == {Event(DeviceId, KeyMissing, start, NoValue, NoValue) : start \in {0, 1}}

InitRerun ==
    /\ now = MaxSec
    /\ devices_table = [exists |-> TRUE, patientId |-> "P1"]
    /\ assignments = <<[patient |-> "P1", assigned_at |-> 0, released_at |-> NoRelease]>>
    /\ sensor_table \in StoresOver(RerunTimestamps, RerunShapes, {KeyMissing})
    /\ results_table = {}
    /\ fft_oracle = {}
    /\ inv = [i \in Invocations |-> IdleInvocation]
    /\ batch = IdleBatch
    /\ probe = IdleProbe
    /\ BackendIdle

NextRerun ==
    \/ \E i \in Invocations : \E ev \in RerunEvents : Invoke(i, ev)
    \/ \E i \in Invocations : LookupOwner(i, FALSE)
    \/ \E i \in Invocations : QueryAndAnalyze(i, FALSE)
    \/ \E i \in Invocations : WriteItem(i)
    \/ \E i \in Invocations : Return(i)
    \/ \E p \in Patients : BindDevice(p)

SpecRerun == InitRerun /\ [][NextRerun]_vars

\* ------------------------------------------------- ownership specification
\* The device is registered, bound, bound again and deleted while its
\* readings arrive, and one invocation analyses them at some point.
OwnMagnitudes == {100}
OwnEvents == {Event(DeviceId, KeyMissing, NoValue, NoValue, NoValue)}

InitOwn ==
    /\ now = 0
    /\ devices_table = [exists |-> FALSE, patientId |-> PyNone]
    /\ assignments = <<>>
    /\ sensor_table = <<>>
    /\ results_table = {}
    /\ fft_oracle = {}
    /\ inv = [i \in Invocations |-> IdleInvocation]
    /\ batch = IdleBatch
    /\ probe = IdleProbe
    /\ BackendIdle

NextOwn ==
    \/ Tick
    \/ RegisterDevice
    \/ \E p \in Patients : BindDevice(p)
    \/ DeleteDevice
    \/ \E mag \in OwnMagnitudes : Ingest(mag)
    \/ \E ev \in OwnEvents : Invoke(1, ev)
    \/ \E raises \in BOOLEAN : LookupOwner(1, raises)
    \/ QueryAndAnalyze(1, FALSE)
    \/ WriteItem(1)
    \/ Return(1)

SpecOwn == InitOwn /\ [][NextOwn]_vars

\* ------------------------------------------------------ batch specification
\* One run of the batch script over tables of array records, with the store
\* failures.
BatchShapes == {"oldbatch", "batch"}
BatchOverlaps == {0, BatchLen \div 2}

InitBatch ==
    /\ now = MaxSec
    /\ devices_table \in {[exists |-> FALSE, patientId |-> PyNone], [exists |-> TRUE, patientId |-> "P1"]}
    /\ assignments = <<>>
    /\ sensor_table \in StoresOver(RerunTimestamps, BatchShapes, {KeyMissing})
    /\ results_table = {}
    /\ fft_oracle = {}
    /\ inv = [i \in Invocations |-> IdleInvocation]
    /\ batch = IdleBatch
    /\ probe = IdleProbe
    /\ BackendIdle

NextBatch ==
    \/ \E overlap \in BatchOverlaps : \E raises \in BOOLEAN : BatchStart(BatchLen, overlap, raises)
    \/ \E raises \in BOOLEAN : BatchQuery(raises)
    \/ \E put_raises \in BOOLEAN : BatchWindow(put_raises)
    \/ BatchReturn

SpecBatch == InitBatch /\ [][NextBatch]_vars

\* ------------------------------------------------ store-failure specification
\* Two invocations over the same table, each of which can lose the sample
\* store or the result store at any point.
FaultShapes == {"m100"}
FaultEvents == {Event(DeviceId, KeyMissing, NoValue, NoValue, NoValue)}

InitFault ==
    /\ now = MaxSec
    /\ devices_table = [exists |-> TRUE, patientId |-> "P1"]
    /\ assignments = <<[patient |-> "P1", assigned_at |-> 0, released_at |-> NoRelease]>>
    /\ sensor_table \in StoresOver(RerunTimestamps, FaultShapes, {KeyMissing})
    /\ results_table = {}
    /\ fft_oracle = {}
    /\ inv = [i \in Invocations |-> IdleInvocation]
    /\ batch = IdleBatch
    /\ probe = IdleProbe
    /\ BackendIdle

NextFault ==
    \/ \E i \in Invocations : \E ev \in FaultEvents : Invoke(i, ev)
    \/ \E i \in Invocations : LookupOwner(i, FALSE)
    \/ \E i \in Invocations : \E query_raises \in BOOLEAN : QueryAndAnalyze(i, query_raises)
    \/ \E i \in Invocations : WriteItem(i)
    \/ \E i \in Invocations : WriteRaises(i)
    \/ \E i \in Invocations : Return(i)

SpecFault == InitFault /\ [][NextFault]_vars

\* ------------------------------------------------------ path specification
\* One invocation over tables whose windows hold one sample, a micro-batch
\* too short for the filter, a full micro-batch, or several of them.
PathShapes == {"m100", "short", "batch"}

InitPath ==
    /\ now = MaxSec
    /\ devices_table = [exists |-> FALSE, patientId |-> PyNone]
    /\ assignments = <<>>
    /\ sensor_table \in StoresOver(RerunTimestamps, PathShapes, {KeyMissing})
    /\ results_table = {}
    /\ fft_oracle = {}
    /\ inv = [i \in Invocations |-> IdleInvocation]
    /\ batch = IdleBatch
    /\ probe = IdleProbe
    /\ BackendIdle

SpecPath == InitPath /\ [][NextPipe]_vars

\* -------------------------------------------------- feature specification
\* The feature code on every spectrum of a full micro-batch window with bin
\* magnitudes in BinValues, at rates that put the bins on 1 Hz, 3 Hz and
\* 6.25 Hz steps, and on every raw window of up to MaxLen magnitudes.
BinValues == {0, 1, 3}
ProbeRates == {FracOfInt(BatchLen), FracOfInt(3 * BatchLen), FracOfInt(default_sampling_rate)}
MagValues == {94, 100, 106, 107, 140, 160}
RawWindows == UNION {[1..n -> MagValues] : n \in 1..MaxLen}

InitFeatures ==
    /\ now = MaxSec
    /\ devices_table = [exists |-> FALSE, patientId |-> PyNone]
    /\ assignments = <<>>
    /\ sensor_table = <<>>
    /\ results_table = {}
    /\ fft_oracle = {}
    /\ inv = [i \in Invocations |-> IdleInvocation]
    /\ batch = IdleBatch
    /\ probe = IdleProbe
    /\ BackendIdle

NextFeatures ==
    \/ \E bins \in [1..(BatchLen \div 2) -> BinValues] : \E fs \in ProbeRates :
          ProcessWindow(bins, BatchLen, fs)
    \/ \E mags \in RawWindows : FallbackWindow(mags)

SpecFeatures == InitFeatures /\ [][NextFeatures]_vars

\* --------------------------------------------- normalization specification
\* One invocation over tables that mix well-formed records of the three
\* formats with malformed ones.
NormShapes == {"triplet", "oldbatch", "bad_x", "bad_mag", "no_y"}

InitNorm ==
    /\ now = MaxSec
    /\ devices_table = [exists |-> FALSE, patientId |-> PyNone]
    /\ assignments = <<>>
    /\ sensor_table \in Stores(NormShapes, {KeyMissing})
    /\ results_table = {}
    /\ fft_oracle = {}
    /\ inv = [i \in Invocations |-> IdleInvocation]
    /\ batch = IdleBatch
    /\ probe = IdleProbe
    /\ BackendIdle

SpecNorm == InitNorm /\ [][NextPipe]_vars

\* ------------------------------------------------- sessions specification
\* Requests to create and to end measurement sessions of one device, each
\* served by an execution of its own, in every interleaving of their calls
\* to the store.
InitSessions ==
    /\ now = 0
    /\ devices_table = [exists |-> FALSE, patientId |-> PyNone]
    /\ assignments = <<>>
    /\ sensor_table = <<>>
    /\ results_table = {}
    /\ fft_oracle = {}
    /\ inv = [i \in Invocations |-> IdleInvocation]
    /\ batch = IdleBatch
    /\ probe = IdleProbe
    /\ BackendIdle

NextSessions ==
    \/ Tick
    \/ RegisterDevice
    \/ \E r \in Requests, p \in Patients, patient_found \in BOOLEAN, allowed \in BOOLEAN :
          CreateSessionCheck(r, p, patient_found, allowed)
    \/ \E r \in Requests : CreateSessionPut(r)
    \/ \E r \in Requests : CreateSessionReturn(r)
    \/ \E r \in Requests, session_id \in Requests, allowed \in BOOLEAN :
          EndSessionCheck(r, session_id, allowed)
    \/ \E r \in Requests : EndSessionUpdate(r)
    \/ \E r \in Requests : EndSessionReturn(r)

SpecSessions == InitSessions /\ [][NextSessions]_vars

\* ---------------------------------------------------- nonce specification
\* Two calls of validate_nonce on one NonceService, with or without its
\* table, one after the other or interleaved, on nonces generated at the
\* instants of the clock, on a nonce with a forged signature and on texts
\* that are no nonce, with the failures of the table.
NonceInstants == {k * NonceClockStep * 1000 : k \in 0..MaxTicks}
NonceTexts ==
    {GeneratedNonce(t, random) : t \in NonceInstants, random \in {"a", "b"}}
    \cup {Nonce("three_parts", 0, "a", <<"forged">>), Nonce("two_parts", 0, "a", <<>>),
          Nonce("no_integer", 0, "a", <<>>), NoNonce}

InitNonce ==
    /\ now = 0
    /\ devices_table = [exists |-> FALSE, patientId |-> PyNone]
    /\ assignments = <<>>
    /\ sensor_table = <<>>
    /\ results_table = {}
    /\ fft_oracle = {}
    /\ inv = [i \in Invocations |-> IdleInvocation]
    /\ batch = IdleBatch
    /\ probe = IdleProbe
    /\ sessions = {}
    /\ session_requests = [r \in Requests |-> IdleRequest]
    /\ memory_store = {}
    /\ nonce_table = {}
    /\ validations = [c \in Callers |-> IdleValidation]
    /\ current_session = NoValue
    /\ dynamodb \in BOOLEAN

NextNonce ==
    \/ Elapse
    \/ \E c \in Callers, nonce \in NonceTexts, read_raises \in BOOLEAN : ValidateCheck(c, nonce, read_raises)
    \/ \E c \in Callers, write_raises \in BOOLEAN : ValidateMark(c, write_raises)

SpecNonce == InitNonce /\ [][NextNonce]_vars

\* Two calls of validate_nonce, each in its own execution of the service,
\* against the one nonce table, while the table answers every request
InitRace ==
    /\ InitNonce
    /\ dynamodb

NextRace ==
    \/ Elapse
    \/ \E c \in Callers, nonce \in NonceTexts : ValidateCheck(c, nonce, FALSE)
    \/ \E c \in Callers : ValidateMark(c, FALSE)

SpecRace == InitRace /\ [][NextRace]_vars

\* ------------------------------------------- normalization specification
\* The normalization by itself on up to MaxRecords records of distinct
\* timestamps, of every format, in every order.
OrderStamps == {0, OffGrid, MaxSec * 1000}
OrderShapes == {"m100", "triplet", "batch", "oldbatch", "bad_x"}
RecordOrders ==
    UNION {{ [k \in 1..n |-> ShapeItem(sh[k], st[k], KeyMissing)]
             : st \in {f \in [1..n -> OrderStamps] : \A j, k \in 1..n : f[j] = f[k] => j = k},
               sh \in [1..n -> OrderShapes] }
           : n \in 1..MaxRecords}

InitNormalize ==
    /\ now = MaxSec
    /\ devices_table = [exists |-> FALSE, patientId |-> PyNone]
    /\ assignments = <<>>
    /\ sensor_table = <<>>
    /\ results_table = {}
    /\ fft_oracle = {}
    /\ inv = [i \in Invocations |-> IdleInvocation]
    /\ batch = IdleBatch
    /\ probe = IdleProbe
    /\ BackendIdle

NextNormalize == \E items \in RecordOrders : NormalizeRecords(items)

SpecNormalize == InitNormalize /\ [][NextNormalize]_vars

\* ------------------------------------------------ sampling rate specification
\* One invocation, with and without a sampling_rate hint, over every bounded
\* table of precomputed magnitudes and micro-batches.
HintedRate == default_sampling_rate \div 2
RateShapes == {"m100", "batch"}
RateEvents == {Event(DeviceId, KeyMissing, NoValue, NoValue, rate) : rate \in {NoValue, HintedRate}}

InitRate ==
    /\ now = MaxSec
    /\ devices_table = [exists |-> FALSE, patientId |-> PyNone]
    /\ assignments = <<>>
    /\ sensor_table \in StoresOver(RerunTimestamps, RateShapes, {KeyMissing})
    /\ results_table = {}
    /\ fft_oracle = {}
    /\ inv = [i \in Invocations |-> IdleInvocation]
    /\ batch = IdleBatch
    /\ probe = IdleProbe
    /\ BackendIdle

NextRate ==
    \/ \E ev \in RateEvents : Invoke(1, ev)
    \/ \E raises \in BOOLEAN : LookupOwner(1, raises)
    \/ \E query_raises \in BOOLEAN : QueryAndAnalyze(1, query_raises)
    \/ WriteItem(1)
    \/ WriteRaises(1)
    \/ Return(1)

SpecRate == InitRate /\ [][NextRate]_vars

\* ------------------------------------------------------ filter specification
\* The filter by itself on windows of 1 to 2 * BatchLen samples, at the
\* cutoffs the handler chooses for rates from 1 Hz up and at the configured
\* cutoff whatever the rate.
FilterRates == {FracOfInt(r) : r \in {1, fallback_rate_limit, default_filter_cutoff,
                                      2 * default_filter_cutoff, low_rate_limit, default_sampling_rate}}
FilterSettings ==
    {<<FilterCutoff(fs), fs>> : fs \in FilterRates}
    \cup {<<FracOfInt(default_filter_cutoff), fs>> : fs \in FilterRates}

InitFilter ==
    /\ now = MaxSec
    /\ devices_table = [exists |-> FALSE, patientId |-> PyNone]
    /\ assignments = <<>>
    /\ sensor_table = <<>>
    /\ results_table = {}
    /\ fft_oracle = {}
    /\ inv = [i \in Invocations |-> IdleInvocation]
    /\ batch = IdleBatch
    /\ probe = IdleProbe
    /\ BackendIdle

NextFilter ==
    \E N \in 1..(2 * BatchLen), setting \in FilterSettings : ApplyFilter(N, setting[1], setting[2])

SpecFilter == InitFilter /\ [][NextFilter]_vars

\* ------------------------------------------------ filter cutoff specification
\* The choice of the cutoff by itself at every rate from 0.25 Hz up to
\* low_rate_limit + fallback_rate_limit in steps of 0.25 Hz, and at the
\* default rate.
CutoffRates ==
    {Frac(k, 4) : k \in 1..(4 * (low_rate_limit + fallback_rate_limit))}
    \cup {FracOfInt(default_sampling_rate)}

InitCutoff ==
    /\ now = MaxSec
    /\ devices_table = [exists |-> FALSE, patientId |-> PyNone]
    /\ assignments = <<>>
    /\ sensor_table = <<>>
    /\ results_table = {}
    /\ fft_oracle = {}
    /\ inv = [i \in Invocations |-> IdleInvocation]
    /\ batch = IdleBatch
    /\ probe = IdleProbe
    /\ BackendIdle

NextCutoff == \E fs \in CutoffRates : ChooseCutoff(fs)

SpecCutoff == InitCutoff /\ [][NextCutoff]_vars

\* ------------------------------------------- unequal arrays specification
\* One invocation over tables that mix precomputed magnitudes with
\* micro-batches whose y array is shorter than the x and z arrays.
RaggedShapes == {"m100", "ragged"}

InitRagged ==
    /\ now = MaxSec
    /\ devices_table = [exists |-> FALSE, patientId |-> PyNone]
    /\ assignments = <<>>
    /\ sensor_table \in Stores(RaggedShapes, {KeyMissing})
    /\ results_table = {}
    /\ fft_oracle = {}
    /\ inv = [i \in Invocations |-> IdleInvocation]
    /\ batch = IdleBatch
    /\ probe = IdleProbe
    /\ BackendIdle

SpecRagged == InitRagged /\ [][NextPipe]_vars

\* ------------------------------------------------ termination specification
\* The two loops of one invocation, pass by pass, over every bounded table of
\* single-sample records.
\* The interpreter runs the handler on: every step that can be taken is taken.
InitLoops ==
    /\ now = MaxSec
    /\ devices_table = [exists |-> FALSE, patientId |-> PyNone]
    /\ assignments = <<>>
    /\ sensor_table \in Stores(RerunShapes, {KeyMissing})
    /\ results_table = {}
    /\ fft_oracle = {}
    /\ inv = [i \in Invocations |-> IdleInvocation]
    /\ batch = IdleBatch
    /\ probe = IdleProbe
    /\ BackendIdle

NextLoops ==
    \/ QueryFirstPage
    \/ QueryNextPage
    \/ StartWindows
    \/ WindowIteration
    \/ WindowsDone

SpecLoops ==
    /\ InitLoops /\ [][NextLoops]_vars
    /\ WF_vars(QueryNextPage) /\ WF_vars(StartWindows)
    /\ WF_vars(WindowIteration) /\ WF_vars(WindowsDone)

\* ------------------------------------------------------------------- claims
\* The window end (ms) a stored timestamp text stands for
IsoToMs(t) == t.sec * 1000 + t.micro \div 1000
WindowEnd(r) == IsoToMs(r.timestamp)
\* The invocations whose window loop has run
Analyzed(i) == inv[i].pc \in {"write", "done"} /\ Len(inv[i].time_series_data) > 0
ResultsOf(i) == {inv[i].analysis_results[k] : k \in 1..Len(inv[i].analysis_results)}
SamplesOf(i) == {inv[i].time_series_data[k] : k \in 1..Len(inv[i].time_series_data)}
WindowsOf(i) == {inv[i].windows[k] : k \in 1..Len(inv[i].windows)}
\* Some sample of the series lies in [lo, hi)
SampleIn(i, lo, hi) == \E smp \in SamplesOf(i) : lo <= smp.ts /\ smp.ts < hi
\* The window positions t_first + k * step the loop condition admits
WindowStarts(i) ==
    LET tsd == inv[i].time_series_data IN
    {tsd[1].ts + k * step_size : k \in 0..(MaxSec + 1)} \cap
    {st \in 0..((MaxSec + 1) * 1000) : st + analysis_window_duration <= tsd[Len(tsd)].ts + step_size}

\* C1: every result an invocation emits, and every stored result, is for a
\* window [end - 5 s, end) that holds at least one sample of the normalized
\* series: a window with zero samples produces no result.
C1_NoResultForEmptyWindow ==
    /\ \A i \in Invocations : \A r \in ResultsOf(i) :
         SampleIn(i, WindowEnd(r) - analysis_window_duration, WindowEnd(r))
    /\ \A r \in results_table : \E i \in Invocations :
         SampleIn(i, WindowEnd(r) - analysis_window_duration, WindowEnd(r))
\* C1 witness: a finished run that visited an empty window, skipped it, and
\* emitted and stored results for other windows
C1_Witness ==
    /\ inv[1].pc = "done" /\ inv[1].response.status = "success"
    /\ \E w \in WindowsOf(1) : ~w.emitted
    /\ inv[1].response.points_generated >= 2
    /\ Cardinality(results_table) >= 2

\* The gaps of the series: consecutive samples more than the window duration apart
Gaps(i) ==
    LET tsd == inv[i].time_series_data IN
    {<<tsd[k].ts, tsd[k + 1].ts>> : k \in {j \in 1..(Len(tsd) - 1) :
                                             tsd[j + 1].ts - tsd[j].ts > analysis_window_duration}}

\* C2 as stated: with a gap longer than the window duration in the series, no
\* result has its timestamp (the window end) strictly inside the gap.
C2_NoResultEndsInsideGap ==
    \A i \in Invocations : \A g \in Gaps(i) : \A r \in ResultsOf(i) :
        ~(g[1] < WindowEnd(r) /\ WindowEnd(r) < g[2])
\* C2 amended: no result is for a window that lies wholly inside the gap: no
\* timestamp is later than gap start + 5 s and at most the gap's end.
C2_NoResultForWindowInsideGap ==
    \A i \in Invocations : \A g \in Gaps(i) : \A r \in ResultsOf(i) :
        ~(g[1] + analysis_window_duration < WindowEnd(r) /\ WindowEnd(r) <= g[2])
\* C2 witness: a finished run over a series with a gap, with a result before
\* and a result after the skipped stretch
C2_Witness ==
    /\ inv[1].pc = "done" /\ inv[1].response.status = "success"
    /\ \E g \in Gaps(1) :
         /\ \E r \in ResultsOf(1) : WindowEnd(r) <= g[1] + analysis_window_duration
         /\ \E r \in ResultsOf(1) : WindowEnd(r) > g[2]

\* C5: when processor.process raises for a window, the failure stays in that
\* window: the loop is not left for it, every window position that holds
\* samples has its result, and the invocation does not end in the error
\* status unless a store fails.
C5_WindowFailureIsContained ==
    \A i \in Invocations :
        /\ inv[i].failure # "window"
        /\ Analyzed(i) =>
             /\ \A st \in WindowStarts(i) :
                  SampleIn(i, st, st + analysis_window_duration)
                  => \E r \in ResultsOf(i) : r.timestamp = IsoFormat(st + analysis_window_duration)
             /\ inv[i].response.status = "error" => inv[i].failure = "write"
\* C5 witness: a finished, successful run in which the filter raised for one
\* window and later windows still produced results by the spectral path
C5_Witness ==
    /\ inv[1].pc = "done" /\ inv[1].response.status = "success"
    /\ \E w1, w2 \in WindowsOf(1) :
         /\ w1.error /\ w1.emitted
         /\ w2.start > w1.start /\ w2.emitted /\ ~w2.error /\ w2.path = "spectral"
    /\ inv[1].response.points_generated = Cardinality({w \in WindowsOf(1) : w.emitted})

\* What the normalizer owes for one raw record: a record with a numeric
\* magnitude, or three numeric axis values, or three axis arrays, is well
\* formed and yields one sample per reading; any other record yields none.
WellFormed(item) ==
    \/ item.magnitude.t = "num"
    \/ item.accel_x.t = "num" /\ item.accel_y.t = "num" /\ item.accel_z.t = "num"
    \/ /\ item.accel_x.t = "absent"
       /\ GetList(item.x, item.accelerometer_x).t = "list"
       /\ GetList(item.y, item.accelerometer_y).t = "list"
       /\ GetList(item.z, item.accelerometer_z).t = "list"
       /\ Len(GetList(item.x, item.accelerometer_x).l) > 0
Readings(item) ==
    IF ~WellFormed(item) THEN 0
    ELSE IF item.magnitude.t = "num" \/ item.accel_x.t = "num" THEN 1
    ELSE Len(GetList(item.x, item.accelerometer_x).l)
Malformed(item) == ~WellFormed(item)

\* C6 as stated: a malformed raw record never aborts the invocation: it alone
\* is dropped, and every well-formed record of the batch still yields its
\* canonical samples.
C6_MalformedRecordIsDropped ==
    \A i \in Invocations :
        /\ inv[i].failure # "normalize"
        /\ (inv[i].pc \in {"write", "done"} /\ inv[i].failure # "query" /\ inv[i].response.statusCode # 400)
           => \A k \in 1..Len(inv[i].items) :
                Cardinality({j \in 1..Len(inv[i].time_series_data) :
                               inv[i].time_series_data[j].ts = inv[i].items[k].timestamp.n})
                = Readings(inv[i].items[k])

\* An invocation that got through the analysis without a failure
Finished(i) == inv[i].pc \in {"write", "done"} /\ inv[i].failure = "none" /\ inv[i].event.device_id # ""
Succeeded(i) == inv[i].pc = "done" /\ inv[i].response.status = "success"
Triple(r) == <<r.timestamp, r.is_parkinsonian, r.tremor_index_sq>>
Triples(i) == {Triple(r) : r \in ResultsOf(i)}
Max2(a, b) == IF a > b THEN a ELSE b
Least2(a, b) == IF a < b THEN a ELSE b
\* A result of a run whose window lies in the range both runs asked for
InOverlap(r) ==
    /\ Max2(inv[1].query.start, inv[2].query.start) <= WindowEnd(r) - analysis_window_duration
    /\ WindowEnd(r) <= Least2(inv[1].query.end, inv[2].query.end)

\* C3 as stated: after two runs over the same samples of the device, in
\* sequence or interleaved, the result store holds one record per window: the
\* keys of a single run.
C3_OneRecordPerWindow ==
    (Succeeded(1) /\ Succeeded(2) /\ inv[1].items = inv[2].items)
    => /\ {ResultKey(r) : r \in results_table} = {ResultKey(r) : r \in ResultsOf(1)}
       /\ Cardinality(results_table) = Cardinality({WindowEnd(r) : r \in ResultsOf(1)})

\* C4 as stated: two runs over overlapping ranges of an unchanged store agree,
\* for every window inside the overlap, on (timestamp, is_parkinsonian,
\* tremor_index).
C4_OverlapWindowsAgree ==
    (Finished(1) /\ Finished(2))
    => \A i, j \in Invocations : \A r \in ResultsOf(i) :
          InOverlap(r) => Triple(r) \in Triples(j)

\* C4, amended: two runs whose ranges select the same samples of an unchanged
\* store produce the same set of (timestamp, is_parkinsonian, tremor_index).
C4_SameSamplesAgree ==
    \A i, j \in Invocations :
        (Finished(i) /\ Finished(j) /\ inv[i].items = inv[j].items)
        => Triples(i) = Triples(j)

C4_Witness ==
    /\ Finished(1) /\ Finished(2)
    /\ inv[1].items = inv[2].items
    /\ inv[1].query # inv[2].query
    /\ Cardinality(Triples(1)) >= 2
    /\ Triples(1) = Triples(2)

\* The patient whose binding interval [assigned_at, released_at) holds the
\* time t (ms), the most recent one if several do; UNASSIGNED if none does
Holds(a, t) ==
    /\ a.assigned_at * 1000 <= t
    /\ a.released_at = NoRelease \/ t < a.released_at * 1000
OwnerAsOf(t) ==
    IF \E k \in 1..Len(assignments) : Holds(assignments[k], t)
    THEN assignments[CHOOSE k \in 1..Len(assignments) :
                        /\ Holds(assignments[k], t)
                        /\ \A m \in 1..Len(assignments) : Holds(assignments[m], t) => m <= k].patient
    ELSE UNASSIGNED
\* The samples a result was computed from
WindowOf(i, r) ==
    {smp \in SamplesOf(i) : WindowEnd(r) - analysis_window_duration <= smp.ts /\ smp.ts < WindowEnd(r)}

\* C7 as stated: the patient_id of a result is the patient bound to the device
\* as of the time of the analysed samples (UNASSIGNED if none was); checked
\* for the windows whose samples all fall under one owner.
C7_ResultOwnerAsOfData ==
    \A i \in Invocations : Finished(i) =>
        \A r \in ResultsOf(i) :
            (\A s1, s2 \in WindowOf(i, r) : OwnerAsOf(s1.ts) = OwnerAsOf(s2.ts))
            => \A smp \in WindowOf(i, r) : r.patient_id = OwnerAsOf(smp.ts)

\* C8 as stated: a device that has no registry record, or a record without a
\* patient, and that was never bound, gets patient_id = "UNASSIGNED" on every
\* result, and its invocation does not fail.
C8_UnboundDeviceIsUnassigned ==
    \A i \in Invocations :
        (inv[i].pc \in {"write", "done"} /\ inv[i].lookup \in {"no_item", "no_patient"} /\ assignments = <<>>)
        => /\ inv[i].failure = "none"
           /\ \A r \in ResultsOf(i) : r.patient_id = UNASSIGNED

\* C9 as stated: when the registry lookup raises, the invocation still
\* analyses its samples and its results carry patient_id = "UNASSIGNED".
C9_LookupFailureIsUnassigned ==
    \A i \in Invocations :
        (inv[i].pc \in {"write", "done"} /\ inv[i].lookup = "raised")
        => /\ inv[i].failure = "none"
           /\ \A r \in ResultsOf(i) : r.patient_id = UNASSIGNED

\* C10 as stated: a failure of the sample store or of the result store ends
\* the run with an error, never with a normal completion, and a window whose
\* write failed is not counted; for lambda_handler and for the batch script.
C10_StoreFailureIsReported ==
    /\ \A i \in Invocations :
          (inv[i].pc = "done" /\ inv[i].failure \in {"query", "write"})
          => inv[i].response.status = "error"
    /\ \A i \in Invocations :
          Succeeded(i) => /\ inv[i].response.points_generated = inv[i].written
                          /\ inv[i].written = Len(inv[i].analysis_results)
    /\ batch.write_errors > 0 => batch.pc # "returned"

\* C11 as stated: the summary returned after a write failure that followed
\* some persisted results differs from the summary of an invocation that
\* failed with nothing persisted.
C11_PartialSuccessIsDistinguishable ==
    \A i, j \in Invocations :
        (/\ inv[i].pc = "done" /\ inv[i].failure = "write" /\ inv[i].written > 0
         /\ inv[j].pc = "done" /\ inv[j].failure \in {"query", "write"} /\ inv[j].written = 0)
        => inv[i].response # inv[j].response

\* The number of samples of the series of invocation i in the window w
CountIn(i, w) ==
    Cardinality({k \in 1..Len(inv[i].time_series_data) :
                   /\ w.start <= inv[i].time_series_data[k].ts
                   /\ inv[i].time_series_data[k].ts < w.start + analysis_window_duration})
RateOf(i) == inv[i].actual_fs

\* C12 as stated: a non-empty window takes the degraded path exactly when it
\* has fewer than order * 3 = 12 samples or the rate is too low; it yields a
\* result either way.
C12_DegradedBelowThreeTimesOrder ==
    \A i \in Invocations : Finished(i) =>
        \A w \in WindowsOf(i) : CountIn(i, w) > 0 =>
            /\ w.emitted /\ ~w.aborted
            /\ w.path = "fallback"
                 <=> (CountIn(i, w) < filter_order * 3 \/ FracLt(RateOf(i), FracOfInt(fallback_rate_limit)))

\* C12, amended: a non-empty window takes the degraded path exactly when it
\* has at most 3 * (order + 1) = 15 samples or the rate is below 5 Hz; it
\* yields a result either way, and every other non-empty window takes the
\* spectral path.
C12_DegradedUpToPadlen ==
    \A i \in Invocations : Finished(i) =>
        \A w \in WindowsOf(i) : CountIn(i, w) > 0 =>
            /\ w.emitted /\ ~w.aborted
            /\ w.path \in {"fallback", "spectral"}
            /\ w.path = "fallback"
                 <=> (CountIn(i, w) <= 3 * (filter_order + 1)
                      \/ FracLt(RateOf(i), FracOfInt(fallback_rate_limit)))

C12_Witness ==
    /\ Finished(1)
    /\ ~FracLt(RateOf(1), FracOfInt(fallback_rate_limit))
    /\ \E w \in WindowsOf(1) : /\ CountIn(1, w) >= filter_order * 3
                               /\ CountIn(1, w) <= 3 * (filter_order + 1)
                               /\ w.path = "fallback" /\ w.emitted
    /\ \E w \in WindowsOf(1) : w.path = "spectral" /\ w.emitted

\* C13: on the spectral path is_parkinsonian is true exactly when
\* 3 <= dominant_freq <= 6 (both ends included) and tremor_index > 0.3
\* (strictly), the index being compared through its square.
C13_PrimaryRule ==
    probe.pc = "spectral" =>
        (probe.features.is_parkinsonian
         <=> /\ 3 * probe.features.dominant_freq.d <= probe.features.dominant_freq.n
             /\ probe.features.dominant_freq.n <= 6 * probe.features.dominant_freq.d
             /\ 100 * probe.features.tremor_index_sq.n > 9 * probe.features.tremor_index_sq.d)

\* The dominant frequency is 3 Hz and the index is 0.3 exactly: not positive
C13_Witness ==
    /\ probe.pc = "spectral"
    /\ probe.features.dominant_freq = FracOfInt(3)
    /\ probe.features.tremor_index_sq = [n |-> 9, d |-> 100]
    /\ ~probe.features.is_parkinsonian

\* The AC component of a raw window, scaled by its length n to stay integral:
\* n * (m[k] - mean) = n * m[k] - sum(m); its squares add up to n^3 * rms_ac^2
RECURSIVE ScaledAcSquares(_, _, _)
ScaledAcSquares(mags, n, total) ==
    IF mags = <<>> THEN 0
    ELSE (n * Head(mags) - total) * (n * Head(mags) - total) + ScaledAcSquares(Tail(mags), n, total)
AcSquares(mags) == ScaledAcSquares(mags, Len(mags), SumSeq(mags))
Cube(n) == n * n * n

\* C14: on the degraded path the estimate is min(RMS(window - mean) / 0.2, 1)
\* on the raw window, and the window is positive exactly when the estimate
\* exceeds 0.3.  In units of 0.01 g, (rms_ac / 0.2)^2 = AcSquares / (400 n^3).
C14_DegradedEstimate ==
    probe.pc = "fallback" =>
        /\ probe.features.tremor_index_sq =
              IF AcSquares(probe.mags) >= 400 * Cube(probe.N) THEN FracOfInt(1)
              ELSE Frac(AcSquares(probe.mags), 400 * Cube(probe.N))
        /\ probe.features.is_parkinsonian <=> 100 * AcSquares(probe.mags) > 9 * 400 * Cube(probe.N)

\* A raw window shaking beyond the reference amplitude: the cap applies
C14_Witness ==
    /\ probe.pc = "fallback"
    /\ AcSquares(probe.mags) > 400 * Cube(probe.N)
    /\ probe.features.tremor_index_sq = FracOfInt(1)
    /\ probe.features.is_parkinsonian

\* C15: the tremor index of both paths lies in [0, 1] (its square does,
\* and the index is a quotient of non-negative numbers), and a spectrum
\* without power gives the index 0.
C15_IndexInUnitInterval ==
    probe.pc \in {"spectral", "fallback"} =>
        /\ probe.features.tremor_index_sq.d > 0
        /\ 0 <= probe.features.tremor_index_sq.n
        /\ probe.features.tremor_index_sq.n <= probe.features.tremor_index_sq.d
        /\ (probe.pc = "spectral" /\ SumSq(probe.bins) = 0)
           => probe.features.tremor_index_sq = FracOfInt(0)

C15_Witness ==
    /\ probe.pc = "spectral"
    /\ SumSq(probe.bins) = 0
    /\ probe.features.tremor_index_sq = FracOfInt(0)
    /\ ~probe.features.is_parkinsonian

\* The square of the quotient of two fractions, 0 when the divisor is 0
RatioSq(p, t) ==
    IF t.n > 0 THEN Frac(p.n * t.d * p.n * t.d, p.d * t.n * p.d * t.n) ELSE FracOfInt(0)
\* The total power of the window of the probe: the power of the non-DC bins
\* on the spectral path, the square of the total RMS on the degraded path
TotalPower ==
    IF probe.pc = "spectral" THEN FracOfInt(SumSq(probe.bins))
    ELSE Frac(SumSq(probe.mags), probe.N)

\* C16 as stated: whichever path produced the features, tremor_index =
\* tremor_power / total_power when total_power > 0, and 0 otherwise.
C16_IndexIsPowerRatio ==
    probe.pc \in {"spectral", "fallback"} =>
        probe.features.tremor_index_sq = RatioSq(probe.features.tremor_power, TotalPower)

\* C16, amended: the features of the spectral path satisfy tremor_index =
\* tremor_power / total_power when total_power > 0, and 0 otherwise.
C16_SpectralIndexIsPowerRatio ==
    probe.pc = "spectral" =>
        probe.features.tremor_index_sq = RatioSq(probe.features.tremor_power, TotalPower)

C16_Witness ==
    /\ probe.pc = "spectral"
    /\ 0 < probe.features.tremor_power.n
    /\ probe.features.tremor_power.n < SumSq(probe.bins)
    /\ probe.features.tremor_index_sq = RatioSq(probe.features.tremor_power, TotalPower)
    /\ probe.features.tremor_index_sq # FracOfInt(0)

\* A micro-batch record whose three axis arrays differ in length
Ragged(item) ==
    LET xs == GetList(item.x, item.accelerometer_x)
        ys == GetList(item.y, item.accelerometer_y)
        zs == GetList(item.z, item.accelerometer_z)
    IN  /\ item.magnitude.t = "absent" /\ item.accel_x.t = "absent"
        /\ xs.t = "list" /\ ys.t = "list" /\ zs.t = "list"
        /\ ~(Len(xs.l) = Len(ys.l) /\ Len(ys.l) = Len(zs.l))
\* The number of samples of the series of invocation i at timestamp ts
SamplesAt(i, ts) ==
    Cardinality({j \in 1..Len(inv[i].time_series_data) : inv[i].time_series_data[j].ts = ts})

\* C17 as stated: a micro-batch record whose three axis arrays do not have
\* the same length is rejected as a whole: no sample of the normalized
\* series comes from it.
C17_RaggedBatchIsRejected ==
    \A i \in Invocations :
        (inv[i].pc \in {"write", "done"} /\ inv[i].failure = "none") =>
            \A k \in 1..Len(inv[i].items) :
                Ragged(inv[i].items[k]) => SamplesAt(i, inv[i].items[k].timestamp.n) = 0

\* The number of samples of the probe's series at timestamp ts
ProbeSamplesAt(ts) == Cardinality({j \in 1..Len(probe.series) : probe.series[j].ts = ts})

\* C18: the normalization returns the samples sorted ascending by timestamp
\* whatever the order of the raw records, and it conserves the count: a
\* micro-batch with arrays of length n gives exactly n samples, all at the
\* record's timestamp, a triplet or precomputed-magnitude record gives
\* exactly one, and no sample comes from anywhere else.
C18_NormalizeSortsAndConserves ==
    probe.pc = "normalized" =>
        /\ \A j, k \in 1..Len(probe.series) : j < k => probe.series[j].ts <= probe.series[k].ts
        /\ \A k \in 1..Len(probe.items) :
              ProbeSamplesAt(probe.items[k].timestamp.n) = Readings(probe.items[k])
        /\ \A j \in 1..Len(probe.series) :
              \E k \in 1..Len(probe.items) : probe.items[k].timestamp.n = probe.series[j].ts

C18_Witness ==
    /\ probe.pc = "normalized"
    /\ Len(probe.items) = 3
    /\ probe.items[1].timestamp.n > probe.items[2].timestamp.n
    /\ probe.items[2].timestamp.n > probe.items[3].timestamp.n
    /\ probe.items[1].x.t = "list" /\ probe.items[2].accel_x.t = "num" /\ probe.items[3].magnitude.t = "num"
    /\ Len(probe.series) = BatchLen + 2
    /\ probe.series[1].ts = probe.items[3].timestamp.n
    /\ probe.series[Len(probe.series)].ts = probe.items[1].timestamp.n

\* The rate an invocation was asked to assume
NominalRate(i) ==
    IF inv[i].event.sampling_rate = NoValue THEN default_sampling_rate ELSE inv[i].event.sampling_rate
\* The earliest and the latest timestamp of the series of invocation i
TFirst(i) == inv[i].time_series_data[1].ts
TLast(i) == inv[i].time_series_data[Len(inv[i].time_series_data)].ts
\* An invocation that computed a rate and went on to the window loop
Rated(i) == Finished(i) /\ Len(inv[i].time_series_data) > 0

\* C19 as stated: with more than one sample the effective rate is
\* count / (t_last - t_first), t_first and t_last being the earliest and the
\* latest timestamp of the series; with fewer than two samples it is the
\* nominal rate.
C19_RateIsCountOverSpan ==
    \A i \in Invocations :
        Rated(i) =>
            IF Len(inv[i].time_series_data) > 1
            THEN inv[i].actual_fs.n * (TLast(i) - TFirst(i))
                 = Len(inv[i].time_series_data) * 1000 * inv[i].actual_fs.d
            ELSE inv[i].actual_fs = FracOfInt(NominalRate(i))

\* C19, amended: with more than one sample and t_last > t_first the effective
\* rate is count / (t_last - t_first); with fewer than two samples, or with
\* every sample at one timestamp, it is the nominal rate.
C19_RateIsCountOverPositiveSpan ==
    \A i \in Invocations :
        Rated(i) =>
            IF Len(inv[i].time_series_data) > 1 /\ TLast(i) > TFirst(i)
            THEN inv[i].actual_fs = Frac(Len(inv[i].time_series_data) * 1000, TLast(i) - TFirst(i))
            ELSE inv[i].actual_fs = FracOfInt(NominalRate(i))

C19_Witness ==
    \E i \in Invocations :
        /\ Rated(i)
        /\ inv[i].event.sampling_rate = HintedRate
        /\ Len(inv[i].time_series_data) = 2 * BatchLen + 1
        /\ TLast(i) - TFirst(i) = 2 * step_size
        /\ inv[i].actual_fs = Frac(2 * BatchLen + 1, 2)
        /\ inv[i].actual_fs # FracOfInt(HintedRate)

\* fs / 2.1, and 1 where that is below 1
LoweredCutoff(fs) ==
    IF 10 * fs.n < 21 * fs.d THEN FracOfInt(1) ELSE Frac(10 * fs.n, 21 * fs.d)

\* C20 as stated: the effective cutoff is the configured 12 Hz unless
\* 12 >= 0.5 * sampling_rate, in which case it is sampling_rate / 2.1, and it
\* is never below 1 Hz.
C20_CutoffLoweredAtNyquist ==
    probe.pc = "tuned" =>
        /\ probe.cutoff = IF 2 * default_filter_cutoff * probe.fs.d >= probe.fs.n
                          THEN LoweredCutoff(probe.fs)
                          ELSE FracOfInt(default_filter_cutoff)
        /\ probe.cutoff.n >= probe.cutoff.d

\* C20, amended: the effective cutoff is the configured 12 Hz unless
\* sampling_rate < 25 Hz, in which case it is sampling_rate / 2.1, and it is
\* never below 1 Hz.
C20_CutoffLoweredBelowLimit ==
    probe.pc = "tuned" =>
        /\ probe.cutoff = IF probe.fs.n < low_rate_limit * probe.fs.d
                          THEN LoweredCutoff(probe.fs)
                          ELSE FracOfInt(default_filter_cutoff)
        /\ probe.cutoff.n >= probe.cutoff.d

C20_Witness ==
    /\ probe.pc = "tuned"
    /\ probe.fs.n > 2 * default_filter_cutoff * probe.fs.d
    /\ probe.fs.n < low_rate_limit * probe.fs.d
    /\ probe.cutoff = Frac(10 * probe.fs.n, 21 * probe.fs.d)
    /\ probe.cutoff # FracOfInt(default_filter_cutoff)

\* The invocations whose cutoff was adapted to the rate (lines 264-267)
Adapted(i) == Finished(i) /\ inv[i].filter_cutoff # FracOfInt(default_filter_cutoff)
\* The result r carries the cutoff c
RecordsCutoff(r, c) == "filter_cutoff" \in DOMAIN r /\ r.filter_cutoff = c

\* C21 as stated: whenever the cutoff has been adapted to the sampling rate,
\* every result computed with it (a result of the spectral path, emitted or
\* stored) carries the adapted cutoff.
C21_AdaptedCutoffIsRecorded ==
    \A i \in Invocations : Adapted(i) =>
        \A w \in WindowsOf(i) : (w.emitted /\ w.path = "spectral") =>
            /\ RecordsCutoff(w.result, inv[i].filter_cutoff)
            /\ \A r \in results_table :
                  ResultKey(r) = ResultKey(w.result) => RecordsCutoff(r, inv[i].filter_cutoff)

\* C22 as stated: at any time the device has at most one session whose
\* status is active (released_at = null), after any sequence of create and
\* end requests, concurrent create requests included.
C22_AtMostOneActiveSession ==
    Cardinality(get_active_session_by_device(DeviceId)) <= 1

\* The calls that have returned (True, "") for the nonce
AcceptedCalls(nonce) ==
    {c \in Callers : validations[c].pc = "done" /\ validations[c].nonce = nonce
                     /\ validations[c].result = <<TRUE, "">>}

\* C23 as stated: a nonce is accepted at most once: a call of validate_nonce
\* that begins after a call has accepted the same nonce is rejected with the
\* 'already used' error.
C23_AcceptedNonceIsRejectedLater ==
    [][\A c \in Callers :
          (/\ validations[c].pc = "idle" /\ validations'[c].pc # "idle"
           /\ AcceptedCalls(validations'[c].nonce) # {})
          => /\ validations'[c].pc = "done"
             /\ validations'[c].result = <<FALSE, AlreadyUsed>>]_vars

\* C24: filtering is length-preserving: whenever apply returns, its output
\* has as many samples as its input, one for each position of the window, in
\* order, each having gone through the forward and the backward pass.
C24_FilterPreservesLength ==
    probe.pc = "filtered" =>
        /\ Len(probe.filtered) = probe.N
        /\ \A k \in 1..Len(probe.filtered) :
              probe.filtered[k].at = k /\ probe.filtered[k].passes = 2

C24_Witness ==
    /\ probe.pc = "filtered"
    /\ probe.N = filtfilt_padlen + 1
    /\ Len(probe.filtered) = filtfilt_padlen + 1
    /\ probe.cutoff # FracOfInt(default_filter_cutoff)

\* The order of two timestamp texts "YYYY-MM-DDTHH:MM:SS[.ffffff]Z" as strings:
\* a text without the fraction ends in "Z", which sorts after "."
IsoTextLt(a, b) ==
    \/ a.sec < b.sec
    \/ /\ a.sec = b.sec
       /\ a.micro # 0
       /\ b.micro = 0 \/ a.micro < b.micro
\* The positions of the loop's windows that hold a sample
EmittingPositions(i) == {k \in 1..Len(inv[i].windows) : inv[i].windows[k].emitted}

C27_EverySampleIsAnalysed ==
    \A i \in Invocations : Analyzed(i) =>
        \A smp \in SamplesOf(i) : \E r \in ResultsOf(i) :
            WindowEnd(r) - analysis_window_duration <= smp.ts /\ smp.ts < WindowEnd(r)

\* C28: every invocation on a finite sample series terminates: once the query
\* has begun, the paging loop and the window loop end after finitely many
\* passes and the handler returns.
C28_InvocationTerminates == (probe.pc \in {"paging", "windowing"}) ~> (probe.pc = "returned")
\* C28 witness: a returned invocation whose query took more than one page and
\* whose window loop made two passes or more
C28_Witness ==
    /\ probe.pc = "returned"
    /\ Len(probe.items) > MaxPage
    /\ Len(probe.series) > 0
    /\ probe.current_window_start >= probe.series[1].ts + 2 * step_size

\* C29: two calls of validate_nonce with the same fresh nonce, however their
\* used-checks and their mark-as-used steps interleave, are not both
\* accepted: at most one call gets (True, "") for a nonce.
C29_AtMostOneCallerAccepted ==
    \A c \in Callers : \A e \in Callers \ {c} :
        ~(/\ c \in AcceptedCalls(validations[c].nonce)
          /\ e \in AcceptedCalls(validations[c].nonce))

\* The Nyquist frequency 0.5 * fs
Nyquist(fs) == Frac(fs.n, 2 * fs.d)

\* C30: at every rate at which the filter is applied (the spectral path,
\* rate >= 5 Hz) the cutoff chosen for it is strictly below the Nyquist
\* frequency 0.5 * rate, and below 25 Hz it is the rate over 2.1 itself: the
\* 1 Hz minimum is not in effect on that path.
C30_AppliedCutoffBelowNyquist ==
    (probe.pc = "tuned" /\ ~LowRate(probe.fs)) =>
        /\ FracLt(probe.cutoff, Nyquist(probe.fs))
        /\ FracLt(FracOfInt(1), probe.cutoff)
        /\ ButterAccepts(probe.cutoff, probe.fs)
\* C30 witness: a cutoff chosen at a rate on the spectral path whose Nyquist
\* frequency is at most the configured 12 Hz
C30_Witness ==
    /\ probe.pc = "tuned"
    /\ ~LowRate(probe.fs)
    /\ FracLe(Nyquist(probe.fs), FracOfInt(default_filter_cutoff))
    /\ FracLt(probe.cutoff, Nyquist(probe.fs))

====
